---- MODULE Spec2Model ----
(***************************************************************************)
(* Cinema domain model: Film / ScreeningTime (src/src/film.py) and         *)
(* Hall / Cinema (src/zaliczeniowy/src/cinema.py).                         *)
(*                                                                         *)
(* Instants are integers (minutes after the moment the objects were        *)
(* built); a film's duration is in minutes as in the source.  Every call   *)
(* is one atomic step; the outcome of the latest call (its arguments and   *)
(* the exception it raised, if any) is kept in `last`.                     *)
(***************************************************************************)
EXTENDS Integers, Sequences, FiniteSets, TLC

VARIABLES
    duration,      \* Film.duration (frozen dataclass field)
    screenings,    \* Film.screenings: list of ScreeningTime
    promotions,    \* Film._promotions: ScreeningTime -> CinemaPromotion
    name,          \* Cinema.name
    halls,         \* Cinema._halls: hall number -> Hall
    reservations,  \* Cinema._reservations: (hall, start_iso) -> seats
    file,          \* the snapshot written by Cinema.save, or NoFile
    last,          \* the latest call and its outcome
    hist,          \* the calls of a scripted scenario, in order
    callers,       \* the Cinema.reserve calls of concurrent callers, in progress
    other,         \* a second Film: its duration and its screenings
    fetch          \* a call of DataService.fetch_user_data: its locals and its api

vars == <<duration, screenings, promotions, name, halls, reservations, file,
          last, hist, callers, other, fetch>>

\* What the calls of a single caller on the Film and the Cinema leave alone.
aside == <<hist, callers, other, fetch>>

----------------------------------------------------------------------------
(* Bounds of the model *)

MaxStart == 2
MaxHall == 2
MaxDuration == 2
MaxCapacity == 2
MaxScreenings == 2
MaxObjects == 2
MaxNow == 1
MaxRecords == 1

MaxCallers == 2

MaxRetries == 5
MaxValue == 3

MaxCalls == 4

(* Program constants *)

MIN_DURATION == 1
MAX_DURATION == 960

----------------------------------------------------------------------------
(* Outcomes of a call *)

Ok == [kind |-> "ok", msg |-> ""]
Raise(kind, msg) == [kind |-> kind, msg |-> msg]

Range(seq) == {seq[i] : i \in 1..Len(seq)}

\* No second Film.
NoFilm == [duration |-> 0, screenings |-> << >>]

\* No call of DataService.fetch_user_data.
NoFetch == [pc |-> "none"]

----------------------------------------------------------------------------
(* ScreeningTime *)

\* ScreeningTime.__init__: the checks of the constructor, `now` being the
\* instant of construction.
ScreeningTimeInit(start, hall, now) ==
    IF start <= now THEN Raise("ValidationError", "Screening time must be in the future")
    ELSE IF hall <= 0 THEN Raise("ValidationError", "Hall number must be positive")
    ELSE Ok

\* Faulty variant of ScreeningTimeEq: equality of the objects themselves.
ScreeningTimeIs(a, b) == a = b

\* ScreeningTime.__eq__: equality by (start, hall), whatever the object.
ScreeningTimeEq(a, b) == a.start = b.start /\ a.hall = b.hall

\* `x in list` and `x not in list` of Python: some member equals x by __eq__.
Contains(list, x) == \E i \in 1..Len(list) : ScreeningTimeEq(list[i], x)

\* The ScreeningTime objects built at instant 0 without raising; `id` tells
\* apart two objects built with the same arguments.
ScreeningObjects ==
    {s \in [start : 0..MaxStart, hall : 0..MaxHall, id : 1..MaxObjects] :
        ScreeningTimeInit(s.start, s.hall, 0) = Ok}

\* One object for each (start, hall).
ScreeningTimes == {s \in ScreeningObjects : s.id = 1}

NoScreening == [start |-> 0, hall |-> 0, id |-> 0]

----------------------------------------------------------------------------
(* Film *)

\* Film.__post_init__: the duration checks.
FilmInit(d) ==
    IF d <= 0 THEN Raise("ValidationError", "Duration must be a positive integer")
    ELSE IF d < MIN_DURATION \/ d > MAX_DURATION
         THEN Raise("ValidationError", "duration must be between")
    ELSE Ok

Durations == {d \in 0..MaxDuration : FilmInit(d) = Ok}

\* Faulty variant of Conflicts: the ends of the intervals count as occupied.
ConflictsInclusiveEnd(existing, screening, d) ==
    \/ existing.start <= screening.start /\ screening.start <= existing.start + d
    \/ existing.start <= screening.start + d /\ screening.start + d <= existing.start + d
    \/ screening.start <= existing.start /\ screening.start + d >= existing.start + d

\* Faulty variant of Conflicts: only the second of the three tests.
ConflictsEndOnly(existing, screening, d) ==
    existing.start < screening.start + d /\ screening.start + d <= existing.start + d

\* Faulty variant of Conflicts: only the first of the three tests.
ConflictsStartOnly(existing, screening, d) ==
    existing.start <= screening.start /\ screening.start < existing.start + d

\* The test `existing overlaps screening` of Film.add_screening, with
\* existing_end = existing.start + duration, screening_end likewise.
Conflicts(existing, screening, d) ==
    \/ existing.start <= screening.start /\ screening.start < existing.start + d
    \/ existing.start < screening.start + d /\ screening.start + d <= existing.start + d
    \/ screening.start <= existing.start /\ screening.start + d >= existing.start + d

\* Insertion of s into a sorted list, behind the elements whose start is
\* not greater.
RECURSIVE InsertByStart(_, _)
InsertByStart(sorted, s) ==
    IF sorted = << >> THEN <<s>>
    ELSE IF sorted[Len(sorted)].start <= s.start THEN Append(sorted, s)
    ELSE Append(InsertByStart(SubSeq(sorted, 1, Len(sorted) - 1), s), sorted[Len(sorted)])

RECURSIVE SortFrom(_, _)
SortFrom(done, rest) ==
    IF rest = << >> THEN done
    ELSE SortFrom(InsertByStart(done, Head(rest)), Tail(rest))

\* Faulty variant of SortByStart: the list is left as appended to.
NoSort(seq) == seq

\* list.sort(key=lambda s: s.start): a stable sort of the whole list.
SortByStart(seq) == SortFrom(<< >>, seq)

\* Faulty variant of ListRemove: the first element goes, whatever it is.
ListRemoveHead(seq, x) == Tail(seq)

\* list.remove(x): drops the first element equal to x by __eq__.
RECURSIVE ListRemove(_, _)
ListRemove(seq, x) ==
    IF seq = << >> THEN << >>
    ELSE IF ScreeningTimeEq(Head(seq), x) THEN Tail(seq)
    ELSE <<Head(seq)>> \o ListRemove(Tail(seq), x)

\* The exception Film.add_screening raises, or Ok.
AddScreeningCheck(list, screening, d) ==
    IF Contains(list, screening)
    THEN Raise("ValidationError", "Screening already exists")
    ELSE IF \E i \in 1..Len(list) :
                list[i].hall = screening.hall /\ Conflicts(list[i], screening, d)
         THEN Raise("ScheduleConflictError", "Screening conflicts with existing screening in hall")
    ELSE Ok

\* The exception Film.remove_screening raises, or Ok.
RemoveScreeningCheck(list, screening) ==
    IF ~Contains(list, screening)
    THEN Raise("ValidationError", "Screening does not exist")
    ELSE Ok

\* A CinemaPromotion, as far as Film reads it: its expires_at instant.
CinemaPromotions == [expires_at : 0..MaxNow]

\* None, where a promotion is expected.
NoPromotion == [expires_at |-> -1]

\* The entry of Film._promotions a ScreeningTime selects: __hash__ and __eq__
\* go by (start, hall).
PromotionKey(screening) == <<screening.start, screening.hall>>

\* Faulty variant of ApplyPromotionCheck: a promotion the screening already
\* has is no obstacle.
ApplyPromotionOverwrites(list, promos, screening, promotion, now) ==
    IF ~Contains(list, screening) THEN Raise("ValueError", "Screening not found")
    ELSE IF promotion.expires_at < now
         THEN Raise("ValueError", "Promotion has expired")
    ELSE Ok

\* The exception Film.apply_promotion raises, or Ok; `now` is the reading of
\* datetime.now() during the call.
ApplyPromotionCheck(list, promos, screening, promotion, now) ==
    IF ~Contains(list, screening) THEN Raise("ValueError", "Screening not found")
    ELSE IF PromotionKey(screening) \in DOMAIN promos
         THEN Raise("ValueError", "Screening already has a promotion")
    ELSE IF promotion.expires_at < now
         THEN Raise("ValueError", "Promotion has expired")
    ELSE Ok

\* The exception Film.remove_promotion raises, or Ok.
RemovePromotionCheck(list, promos, screening) ==
    IF ~Contains(list, screening) THEN Raise("ValueError", "Screening not found")
    ELSE IF PromotionKey(screening) \notin DOMAIN promos
         THEN Raise("ValueError", "Screening has no promotion")
    ELSE Ok

\* The exception Film.get_promotion raises, or Ok.
GetPromotionCheck(list, screening) ==
    IF ~Contains(list, screening) THEN Raise("ValueError", "Screening not found")
    ELSE Ok

\* What Film.get_promotion returns when it does not raise.
GetPromotion(promos, screening) ==
    IF PromotionKey(screening) \in DOMAIN promos THEN promos[PromotionKey(screening)]
    ELSE NoPromotion

\* Faulty variant of UpcomingScreenings: a screening starting at `now`
\* counts as upcoming.
UpcomingFromNow(list, now) == SelectSeq(list, LAMBDA s : s.start >= now)

\* What Film.upcoming_screenings(now) returns: a new list,
\* [s for s in self.screenings if s.start > now].
UpcomingScreenings(list, now) == SelectSeq(list, LAMBDA s : s.start > now)

----------------------------------------------------------------------------
(* Hall *)

\* Hall.__init__: the capacity check.
HallInit(number, capacity) ==
    IF capacity <= 0 THEN Raise("ValidationError", "Capacity must be positive")
    ELSE Ok

\* The Hall object Hall.__init__ builds.
NewHall(number, capacity) ==
    [number |-> number, capacity |-> capacity, available_seats |-> capacity]

NoHall == [number |-> 0, capacity |-> 0, available_seats |-> 0]

\* Faulty variant of HallReserveSeatsCheck: a request for all the seats
\* left is refused.
HallReserveRejectsLastSeat(hall, seats) ==
    IF seats <= 0 THEN Raise("ValidationError", "Number of seats must be positive")
    ELSE IF seats >= hall.available_seats
         THEN Raise("ReservationError", "Not enough seats available")
    ELSE Ok

\* The exception Hall.reserve_seats raises, or Ok.
HallReserveSeatsCheck(hall, seats) ==
    IF seats <= 0 THEN Raise("ValidationError", "Number of seats must be positive")
    ELSE IF seats > hall.available_seats
         THEN Raise("ReservationError", "Not enough seats available")
    ELSE Ok

\* Faulty variant of HallCancelReservationCheck: seats are compared with the
\* capacity instead of the seats taken.
HallCancelUpToCapacity(hall, seats) ==
    IF seats <= 0 THEN Raise("ValidationError", "Number of seats must be positive")
    ELSE IF seats > hall.capacity
         THEN Raise("ReservationError", "Not enough seats to cancel")
    ELSE Ok

\* The exception Hall.cancel_reservation raises, or Ok.
HallCancelReservationCheck(hall, seats) ==
    IF seats <= 0 THEN Raise("ValidationError", "Number of seats must be positive")
    ELSE IF seats > hall.capacity - hall.available_seats
         THEN Raise("ReservationError", "Not enough seats to cancel")
    ELSE Ok

\* The Hall objects a caller can hold: built by Hall.__init__ without
\* raising, then changed by Hall.reserve_seats / Hall.cancel_reservation only.
HallObjects ==
    {h \in [number : 1..MaxHall, capacity : 0..MaxCapacity,
            available_seats : 0..MaxCapacity] :
        /\ HallInit(h.number, h.capacity) = Ok
        /\ h.available_seats <= h.capacity}

----------------------------------------------------------------------------
(* dict *)

DictGet(d, k, default) == IF k \in DOMAIN d THEN d[k] ELSE default

DictSet(d, k, v) == [x \in DOMAIN d \cup {k} |-> IF x = k THEN v ELSE d[x]]

DictDel(d, k) == [x \in DOMAIN d \ {k} |-> d[x]]

EmptyDict == [x \in {} |-> 0]

\* The keys of a dict as a list, in one order of enumeration.
RECURSIVE KeyList(_)
KeyList(keys) ==
    IF keys = {} THEN << >>
    ELSE LET k == CHOOSE x \in keys : TRUE
         IN <<k>> \o KeyList(keys \ {k})

----------------------------------------------------------------------------
(* Cinema *)

\* datetime.isoformat() of a start instant: the text "HH:MM" of the instant,
\* as its two numbers.
IsoFormat(start) == <<start \div 60, start % 60>>

\* key = (screening.hall, screening.start.isoformat())
Key(screening) == <<screening.hall, IsoFormat(screening.start)>>

\* Faulty variant of AddHallCheck: a registered number is never refused.
AddHallAlwaysOverwrites(hs, hall, overwrite) == Ok

\* The exception Cinema.add_hall raises, or Ok.
AddHallCheck(hs, hall, overwrite) ==
    IF ~overwrite /\ hall.number \in DOMAIN hs
    THEN Raise("ValidationError", "Hall already exists")
    ELSE Ok

\* Faulty variant of RemoveHallCheck: the hall passed has to be the very
\* Hall that is registered.
RemoveHallByIdentity(hs, hall) ==
    IF hall.number \notin DOMAIN hs \/ hs[hall.number] # hall
    THEN Raise("ValidationError", "Hall does not exist")
    ELSE Ok

\* The exception Cinema.remove_hall raises, or Ok.
RemoveHallCheck(hs, hall) ==
    IF hall.number \notin DOMAIN hs
    THEN Raise("ValidationError", "Hall does not exist")
    ELSE Ok

\* The exception Cinema.hall(number) raises, or Ok.
HallLookupCheck(hs, number) ==
    IF number \notin DOMAIN hs THEN Raise("KeyError", "") ELSE Ok

\* The exception Cinema.add_screening(film, screening) raises, or Ok.
CinemaAddScreeningCheck(hs, list, screening, d) ==
    IF screening.hall \notin DOMAIN hs
    THEN Raise("ValidationError", "Hall does not exist")
    ELSE AddScreeningCheck(list, screening, d)

\* Faulty variant of CinemaReserveSeatsCheck: the seats are not compared
\* with the capacity, only by Hall.reserve_seats with the seats left.
CinemaReserveSeatsNoCapacity(hs, hall, seats) ==
    IF hall.number \notin DOMAIN hs
    THEN Raise("ValidationError", "Hall does not exist")
    ELSE IF seats <= 0
         THEN Raise("ValidationError", "Number of seats must be positive")
    ELSE HallReserveSeatsCheck(hall, seats)

\* The exception Cinema.reserve_seats(screening, hall, seats) raises, or Ok:
\* Cinema._validate_reservation, then Hall.reserve_seats on the hall passed.
\* The screening is not read.
CinemaReserveSeatsCheck(hs, hall, seats) ==
    IF hall.number \notin DOMAIN hs
    THEN Raise("ValidationError", "Hall does not exist")
    ELSE IF seats <= 0
         THEN Raise("ValidationError", "Number of seats must be positive")
    ELSE IF seats > hall.capacity
         THEN Raise("ValidationError", "Not enough seats available")
    ELSE HallReserveSeatsCheck(hall, seats)

\* Faulty variant of ValidateReservationRequest: the hall is looked up first,
\* the seats checked third.
ValidateHallFirst(list, hs, res, screening, seats) ==
    IF screening.hall \notin DOMAIN hs
    THEN Raise("ReservationError", "Hall not registered in cinema")
    ELSE IF ~Contains(list, screening)
         THEN Raise("ReservationError", "Screening does not belong to the given film")
    ELSE IF seats <= 0
         THEN Raise("ValidationError", "Number of seats must be positive")
    ELSE IF seats > hs[screening.hall].capacity - DictGet(res, Key(screening), 0)
         THEN Raise("ReservationError", "Requested seats, but only available left")
    ELSE Ok

\* Faulty variant of ValidateReservationRequest: the seats left are read
\* from the Hall's own counter.
ValidateAgainstHallCounter(list, hs, res, screening, seats) ==
    IF seats <= 0
    THEN Raise("ValidationError", "Number of seats must be positive")
    ELSE IF ~Contains(list, screening)
         THEN Raise("ReservationError", "Screening does not belong to the given film")
    ELSE IF screening.hall \notin DOMAIN hs
         THEN Raise("ReservationError", "Hall not registered in cinema")
    ELSE IF seats > hs[screening.hall].available_seats
         THEN Raise("ReservationError", "Requested seats, but only available left")
    ELSE Ok

\* Faulty variant of ValidateReservationRequest: a request that fills the
\* hall exactly is refused.
ValidateRejectsExactFit(list, hs, res, screening, seats) ==
    IF seats <= 0
    THEN Raise("ValidationError", "Number of seats must be positive")
    ELSE IF ~Contains(list, screening)
         THEN Raise("ReservationError", "Screening does not belong to the given film")
    ELSE IF screening.hall \notin DOMAIN hs
         THEN Raise("ReservationError", "Hall not registered in cinema")
    ELSE IF seats >= hs[screening.hall].capacity - DictGet(res, Key(screening), 0)
         THEN Raise("ReservationError", "Requested seats, but only available left")
    ELSE Ok

\* Cinema._validate_reservation_request: the exception it raises, or Ok.
ValidateReservationRequest(list, hs, res, screening, seats) ==
    IF seats <= 0
    THEN Raise("ValidationError", "Number of seats must be positive")
    ELSE IF ~Contains(list, screening)
         THEN Raise("ReservationError", "Screening does not belong to the given film")
    ELSE IF screening.hall \notin DOMAIN hs
         THEN Raise("ReservationError", "Hall not registered in cinema")
    ELSE IF seats > hs[screening.hall].capacity - DictGet(res, Key(screening), 0)
         THEN Raise("ReservationError", "Requested seats, but only available left")
    ELSE Ok

\* Faulty variant of ValidateCancellationRequest: seats are compared with
\* the hall's capacity instead of the count reserved.
ValidateCancellationLoose(list, hs, res, screening, seats) ==
    IF seats <= 0
    THEN Raise("ValidationError", "Number of seats must be positive")
    ELSE IF ~Contains(list, screening)
         THEN Raise("ReservationError", "Screening does not belong to the given film")
    ELSE IF screening.hall \notin DOMAIN hs
         THEN Raise("ReservationError", "Hall not registered in cinema")
    ELSE IF seats > hs[screening.hall].capacity
         THEN Raise("ReservationError", "Requested to cancel seats, but only reserved")
    ELSE Ok

\* Cinema._validate_cancellation_request: the exception it raises, or Ok.
ValidateCancellationRequest(list, hs, res, screening, seats) ==
    IF seats <= 0
    THEN Raise("ValidationError", "Number of seats must be positive")
    ELSE IF ~Contains(list, screening)
         THEN Raise("ReservationError", "Screening does not belong to the given film")
    ELSE IF screening.hall \notin DOMAIN hs
         THEN Raise("ReservationError", "Hall not registered in cinema")
    ELSE IF seats > DictGet(res, Key(screening), 0)
         THEN Raise("ReservationError", "Requested to cancel seats, but only reserved")
    ELSE Ok

\* Cinema.available_seats(screening), for a screening whose hall is registered.
AvailableSeats(hs, res, screening) ==
    hs[screening.hall].capacity - DictGet(res, Key(screening), 0)

----------------------------------------------------------------------------
(* Persistence *)

\* The payload Cinema.save writes: the halls and the ledger as lists of
\* records (the timestamp of "meta", which Cinema.load never reads, left
\* out).  json.dumps / json.loads keep the strings, integers, lists and
\* string-keyed dicts of the payload as they are.
SavePayload(nm, hs, res) ==
    LET hk == KeyList(DOMAIN hs)
        rk == KeyList(DOMAIN res)
    IN [meta |-> [name |-> nm],
        halls |-> [i \in 1..Len(hk) |->
                     [number |-> hs[hk[i]].number,
                      capacity |-> hs[hk[i]].capacity,
                      available_seats |-> hs[hk[i]].available_seats]],
        reservations |-> [i \in 1..Len(rk) |->
                     [hall |-> rk[i][1],
                      screening_start |-> rk[i][2],
                      reserved |-> res[rk[i]]]]]

\* Faulty variant of LoadHalls: available_seats is left as Hall.__init__
\* sets it.
RECURSIVE LoadHallsCapacityOnly(_)
LoadHallsCapacityOnly(list) ==
    IF list = << >> THEN EmptyDict
    ELSE LET h == list[Len(list)]
         IN DictSet(LoadHallsCapacityOnly(SubSeq(list, 1, Len(list) - 1)), h.number,
                    NewHall(h.number, h.capacity))

\* The halls Cinema.load rebuilds: Hall(number, capacity), then
\* available_seats from the record; keyed by number in Cinema.__init__.
RECURSIVE LoadHalls(_)
LoadHalls(list) ==
    IF list = << >> THEN EmptyDict
    ELSE LET h == list[Len(list)]
         IN DictSet(LoadHalls(SubSeq(list, 1, Len(list) - 1)), h.number,
                    [NewHall(h.number, h.capacity) EXCEPT
                        !.available_seats = h.available_seats])

\* The ledger Cinema.load rebuilds, record by record.
RECURSIVE LoadReservations(_)
LoadReservations(list) ==
    IF list = << >> THEN EmptyDict
    ELSE LET rec == list[Len(list)]
         IN DictSet(LoadReservations(SubSeq(list, 1, Len(list) - 1)),
                    <<rec.hall, rec.screening_start>>, rec.reserved)

\* The exception the loop over data["halls"] of Cinema.load ends with, or
\* Ok: record by record, Hall(number, capacity) first, h_dict["available_seats"]
\* next.  A KeyError is among the exceptions load catches and reports as
\* IOError; a ValidationError of Hall.__init__ is not.
RECURSIVE LoadHallsCheck(_)
LoadHallsCheck(list) ==
    IF list = << >> THEN Ok
    ELSE LET h == Head(list)
         IN IF HallInit(h.number, h.capacity) # Ok
            THEN HallInit(h.number, h.capacity)
            ELSE IF "available_seats" \notin DOMAIN h
                 THEN Raise("IOError", "Unable to load cinema data")
            ELSE LoadHallsCheck(Tail(list))

\* The exception Cinema.load raises, or Ok.  `f` is << >> when there is no
\* file (OSError, reported as IOError).
LoadCheck(f) ==
    IF f = << >> THEN Raise("IOError", "Unable to load cinema data")
    ELSE LoadHallsCheck(f[1].halls)

\* The Cinema that Cinema.load returns for a payload.
LoadCinema(data) ==
    [name |-> data.meta.name,
     halls |-> LoadHalls(data.halls),
     reservations |-> LoadReservations(data.reservations)]

----------------------------------------------------------------------------
(* The calls, one step each *)

\* The record of a call: its arguments, the exception it raised (or Ok) and
\* what it returned (`returned` a promotion, `upcoming` a list of
\* screenings).  `hall` is the Hall object passed, as it is after the
\* call, and `before` the same object as it was when passed; `registered`
\* tells whether that object is the one the Cinema holds under its number;
\* `film` tells which Film the call was made on or passed (1, or 2 for the
\* second Film).
NoCall ==
    [op |-> "none", film |-> 1, s |-> NoScreening, seats |-> 0, commit |-> FALSE,
     hall |-> NoHall, before |-> NoHall, overwrite |-> FALSE,
     registered |-> FALSE, number |-> 0,
     promotion |-> NoPromotion, now |-> 0, returned |-> NoPromotion,
     upcoming |-> << >>, result |-> Ok]

\* Film.add_screening(screening)
AddScreening(s) ==
    LET r == AddScreeningCheck(screenings, s, duration)
    IN /\ screenings' = IF r = Ok THEN SortByStart(Append(screenings, s))
                                  ELSE screenings
       /\ last' = [NoCall EXCEPT !.op = "add_screening", !.s = s, !.result = r]
       /\ UNCHANGED <<duration, promotions, name, halls, reservations, file>>

\* Cinema.add_screening(film, screening)
CinemaAddScreening(s) ==
    LET r == CinemaAddScreeningCheck(halls, screenings, s, duration)
    IN /\ screenings' = IF r = Ok THEN SortByStart(Append(screenings, s))
                                  ELSE screenings
       /\ last' = [NoCall EXCEPT !.op = "cinema_add_screening", !.s = s,
                                 !.result = r]
       /\ UNCHANGED <<duration, promotions, name, halls, reservations, file>>

\* Faulty variant of RemoveScreening: the promotion of the screening goes
\* with it.
RemoveScreeningAndPromotion(s) ==
    LET r == RemoveScreeningCheck(screenings, s)
    IN /\ screenings' = IF r = Ok THEN ListRemove(screenings, s) ELSE screenings
       /\ promotions' = IF r = Ok /\ PromotionKey(s) \in DOMAIN promotions
                        THEN DictDel(promotions, PromotionKey(s))
                        ELSE promotions
       /\ last' = [NoCall EXCEPT !.op = "remove_screening", !.s = s, !.result = r]
       /\ UNCHANGED <<duration, name, halls, reservations, file>>

\* Film.remove_screening(screening)
RemoveScreening(s) ==
    LET r == RemoveScreeningCheck(screenings, s)
    IN /\ screenings' = IF r = Ok THEN ListRemove(screenings, s) ELSE screenings
       /\ last' = [NoCall EXCEPT !.op = "remove_screening", !.s = s, !.result = r]
       /\ UNCHANGED <<duration, promotions, name, halls, reservations, file>>

\* Film.apply_promotion(screening, promotion), the clock reading `now`
ApplyPromotion(s, p, now) ==
    LET r == ApplyPromotionCheck(screenings, promotions, s, p, now)
    IN /\ promotions' = IF r = Ok THEN DictSet(promotions, PromotionKey(s), p)
                                  ELSE promotions
       /\ last' = [NoCall EXCEPT !.op = "apply_promotion", !.s = s,
                                 !.promotion = p, !.now = now, !.result = r]
       /\ UNCHANGED <<duration, screenings, name, halls, reservations, file>>

\* Film.remove_promotion(screening)
RemovePromotion(s) ==
    LET r == RemovePromotionCheck(screenings, promotions, s)
    IN /\ promotions' = IF r = Ok THEN DictDel(promotions, PromotionKey(s))
                                  ELSE promotions
       /\ last' = [NoCall EXCEPT !.op = "remove_promotion", !.s = s, !.result = r]
       /\ UNCHANGED <<duration, screenings, name, halls, reservations, file>>

\* Film.get_promotion(screening)
GetPromotionCall(s) ==
    LET r == GetPromotionCheck(screenings, s)
    IN /\ last' = [NoCall EXCEPT !.op = "get_promotion", !.s = s, !.result = r,
                                 !.returned = IF r = Ok
                                              THEN GetPromotion(promotions, s)
                                              ELSE NoPromotion]
       /\ UNCHANGED <<duration, screenings, promotions, name, halls,
                      reservations, file>>

\* Film.upcoming_screenings(now); with `now` omitted, `now` is the clock
\* reading of the call.
UpcomingScreeningsCall(now) ==
    /\ last' = [NoCall EXCEPT !.op = "upcoming_screenings", !.now = now,
                              !.upcoming = UpcomingScreenings(screenings, now)]
    /\ UNCHANGED <<duration, screenings, promotions, name, halls, reservations,
                   file>>

\* Hall.reserve_seats(seats) on the hall registered under `number`
HallReserveSeats(number, seats) ==
    LET r == HallReserveSeatsCheck(halls[number], seats)
    IN /\ halls' = IF r = Ok
                   THEN [halls EXCEPT ![number].available_seats = @ - seats]
                   ELSE halls
       /\ last' = [NoCall EXCEPT !.op = "hall_reserve_seats", !.seats = seats,
                                 !.number = number, !.hall = halls'[number],
                                 !.before = halls[number],
                                 !.registered = TRUE, !.result = r]
       /\ UNCHANGED <<duration, screenings, promotions, name, reservations, file>>

\* Hall.cancel_reservation(seats) on the hall registered under `number`
HallCancelReservation(number, seats) ==
    LET r == HallCancelReservationCheck(halls[number], seats)
    IN /\ halls' = IF r = Ok
                   THEN [halls EXCEPT ![number].available_seats = @ + seats]
                   ELSE halls
       /\ last' = [NoCall EXCEPT !.op = "hall_cancel_reservation", !.seats = seats,
                                 !.number = number, !.hall = halls'[number],
                                 !.before = halls[number],
                                 !.registered = TRUE, !.result = r]
       /\ UNCHANGED <<duration, screenings, promotions, name, reservations, file>>

\* Cinema.reserve_seats(screening, hall, seats): `hall` is the object the
\* Cinema holds under hall.number (registered), or another Hall object of
\* the caller.
CinemaReserveSeats(hall, registered, seats) ==
    LET r == CinemaReserveSeatsCheck(halls, hall, seats)
        after == IF r = Ok THEN [hall EXCEPT !.available_seats = @ - seats]
                 ELSE hall
    IN /\ registered => (hall.number \in DOMAIN halls /\ halls[hall.number] = hall)
       /\ halls' = IF registered THEN [halls EXCEPT ![hall.number] = after]
                   ELSE halls
       /\ last' = [NoCall EXCEPT !.op = "reserve_seats", !.seats = seats,
                                 !.number = hall.number, !.hall = after,
                                 !.before = hall,
                                 !.registered = registered, !.result = r]
       /\ UNCHANGED <<duration, screenings, promotions, name, reservations, file>>

\* Cinema.hall(number)
HallLookup(number) ==
    LET r == HallLookupCheck(halls, number)
    IN /\ last' = [NoCall EXCEPT !.op = "hall", !.number = number,
                                 !.hall = IF r = Ok THEN halls[number] ELSE NoHall,
                                 !.registered = (r = Ok), !.result = r]
       /\ UNCHANGED <<duration, screenings, promotions, name, halls,
                      reservations, file>>

\* Cinema.add_hall(hall, overwrite=...)
AddHall(hall, overwrite) ==
    LET r == AddHallCheck(halls, hall, overwrite)
    IN /\ halls' = IF r = Ok THEN DictSet(halls, hall.number, hall) ELSE halls
       /\ last' = [NoCall EXCEPT !.op = "add_hall", !.hall = hall, !.before = hall,
                                 !.overwrite = overwrite, !.result = r]
       /\ UNCHANGED <<duration, screenings, promotions, name, reservations, file>>

\* Cinema.remove_hall(hall)
RemoveHall(hall) ==
    LET r == RemoveHallCheck(halls, hall)
    IN /\ halls' = IF r = Ok THEN DictDel(halls, hall.number) ELSE halls
       /\ last' = [NoCall EXCEPT !.op = "remove_hall", !.hall = hall,
                                 !.before = hall, !.result = r]
       /\ UNCHANGED <<duration, screenings, promotions, name, reservations, file>>

\* Faulty variant of ReserveCommit: the dry run commits too.
ReserveCommitAlways(res, s, seats, commit) ==
    DictSet(res, Key(s), DictGet(res, Key(s), 0) + seats)

\* The ledger after Cinema.reserve, its validation having passed.
ReserveCommit(res, s, seats, commit) ==
    IF commit THEN DictSet(res, Key(s), DictGet(res, Key(s), 0) + seats)
    ELSE res

\* Cinema.reserve(film, screening, seats, commit=...)
Reserve(s, seats, commit) ==
    LET r == ValidateReservationRequest(screenings, halls, reservations, s, seats)
    IN /\ reservations' = IF r = Ok THEN ReserveCommit(reservations, s, seats, commit)
                                    ELSE reservations
       /\ last' = [NoCall EXCEPT !.op = "reserve", !.s = s, !.seats = seats,
                                 !.commit = commit, !.result = r]
       /\ UNCHANGED <<duration, screenings, promotions, name, halls, file>>

\* A caller that has not called Cinema.reserve yet.  In its call, `seen` is
\* the already_reserved that _validate_reservation_request read, `already`
\* the already_reserved that reserve read after it, and `result` the
\* exception raised (or Ok) once pc is "done".
IdleCaller ==
    [pc |-> "idle", s |-> NoScreening, seats |-> 0, commit |-> FALSE,
     seen |-> 0, already |-> 0, result |-> Ok]

\* Caller t enters Cinema.reserve(film, s, seats, commit=...) and runs
\* self._validate_reservation_request(film, screening, seats); a failed
\* validation and a dry run end the call.
ReserveValidate(t, s, seats, commit) ==
    LET r == ValidateReservationRequest(screenings, halls, reservations, s, seats)
        returns == r # Ok \/ ~commit
    IN /\ callers[t].pc = "idle"
       /\ callers' = [callers EXCEPT ![t] =
              [pc |-> IF returns THEN "done" ELSE "read",
               s |-> s, seats |-> seats, commit |-> commit,
               seen |-> DictGet(reservations, Key(s), 0), already |-> 0,
               result |-> r]]
       /\ UNCHANGED <<duration, screenings, promotions, name, halls,
                      reservations, file, last, hist, other, fetch>>

\* Caller t runs `already_reserved = self._reservations.get(key, 0)`.
ReserveRead(t) ==
    /\ callers[t].pc = "read"
    /\ callers' = [callers EXCEPT
                      ![t].pc = "write",
                      ![t].already = DictGet(reservations, Key(callers[t].s), 0)]
    /\ UNCHANGED <<duration, screenings, promotions, name, halls, reservations,
                   file, last, hist, other, fetch>>

\* Caller t runs `self._reservations[key] = already_reserved + seats` and
\* returns.
ReserveWrite(t) ==
    /\ callers[t].pc = "write"
    /\ reservations' = DictSet(reservations, Key(callers[t].s),
                               callers[t].already + callers[t].seats)
    /\ callers' = [callers EXCEPT ![t].pc = "done"]
    /\ UNCHANGED <<duration, screenings, promotions, name, halls, file, last,
                   hist, other, fetch>>

\* Faulty variant of CancelCommit: the whole entry is dropped to zero.
CancelCommitToZero(res, s, seats) == DictSet(res, Key(s), 0)

\* The ledger after Cinema.cancel_reservation, its validation having passed.
CancelCommit(res, s, seats) ==
    DictSet(res, Key(s), DictGet(res, Key(s), 0) - seats)

\* Faulty variant of CancelReservation: the entry is written before the
\* request is validated.
CancelReservationWriteFirst(s, seats) ==
    LET r == ValidateCancellationRequest(screenings, halls, reservations, s, seats)
    IN /\ reservations' = CancelCommit(reservations, s, seats)
       /\ last' = [NoCall EXCEPT !.op = "cancel_reservation", !.s = s,
                                 !.seats = seats, !.result = r]
       /\ UNCHANGED <<duration, screenings, promotions, name, halls, file>>

\* Cinema.cancel_reservation(film, screening, seats)
CancelReservation(s, seats) ==
    LET r == ValidateCancellationRequest(screenings, halls, reservations, s, seats)
    IN /\ reservations' = IF r = Ok THEN CancelCommit(reservations, s, seats)
                                    ELSE reservations
       /\ last' = [NoCall EXCEPT !.op = "cancel_reservation", !.s = s,
                                 !.seats = seats, !.result = r]
       /\ UNCHANGED <<duration, screenings, promotions, name, halls, file>>

\* add_screening(screening) on the second Film
OtherAddScreening(s) ==
    LET r == AddScreeningCheck(other.screenings, s, other.duration)
    IN /\ other' = IF r = Ok
                   THEN [other EXCEPT !.screenings = SortByStart(Append(@, s))]
                   ELSE other
       /\ last' = [NoCall EXCEPT !.op = "add_screening", !.film = 2, !.s = s,
                                 !.result = r]
       /\ UNCHANGED <<duration, screenings, promotions, name, halls,
                      reservations, file, callers, fetch>>

\* Faulty variant of OtherReserve: the seats are booked under a key of the
\* second Film's own.
OtherReserveOwnKey(s, seats, commit) ==
    LET r == ValidateReservationRequest(other.screenings, halls, reservations,
                                        s, seats)
        k == <<s.hall, IsoFormat(s.start), 2>>
    IN /\ reservations' = IF r = Ok /\ commit
                          THEN DictSet(reservations, k,
                                       DictGet(reservations, k, 0) + seats)
                          ELSE reservations
       /\ last' = [NoCall EXCEPT !.op = "reserve", !.film = 2, !.s = s,
                                 !.seats = seats, !.commit = commit,
                                 !.result = r]
       /\ UNCHANGED <<duration, screenings, promotions, name, halls, file,
                      callers, other, fetch>>

\* Cinema.reserve(film, screening, seats, commit=...), film the second Film
OtherReserve(s, seats, commit) ==
    LET r == ValidateReservationRequest(other.screenings, halls, reservations,
                                        s, seats)
    IN /\ reservations' = IF r = Ok THEN ReserveCommit(reservations, s, seats, commit)
                                    ELSE reservations
       /\ last' = [NoCall EXCEPT !.op = "reserve", !.film = 2, !.s = s,
                                 !.seats = seats, !.commit = commit,
                                 !.result = r]
       /\ UNCHANGED <<duration, screenings, promotions, name, halls, file,
                      callers, other, fetch>>

\* Cinema.cancel_reservation(film, screening, seats), film the second Film
OtherCancelReservation(s, seats) ==
    LET r == ValidateCancellationRequest(other.screenings, halls, reservations,
                                         s, seats)
    IN /\ reservations' = IF r = Ok THEN CancelCommit(reservations, s, seats)
                                    ELSE reservations
       /\ last' = [NoCall EXCEPT !.op = "cancel_reservation", !.film = 2,
                                 !.s = s, !.seats = seats, !.result = r]
       /\ UNCHANGED <<duration, screenings, promotions, name, halls, file,
                      callers, other, fetch>>

\* Cinema.save(path)
Save ==
    /\ file' = <<SavePayload(name, halls, reservations)>>
    /\ last' = [NoCall EXCEPT !.op = "save"]
    /\ UNCHANGED <<duration, screenings, promotions, name, halls, reservations>>

\* Cinema.load(path): the program goes on with the Cinema it returns.
Load ==
    LET r == LoadCheck(file)
    IN /\ IF r = Ok
          THEN /\ name' = LoadCinema(file[1]).name
               /\ halls' = LoadCinema(file[1]).halls
               /\ reservations' = LoadCinema(file[1]).reservations
          ELSE UNCHANGED <<name, halls, reservations>>
       /\ last' = [NoCall EXCEPT !.op = "load", !.result = r]
       /\ UNCHANGED <<duration, screenings, promotions, file>>

----------------------------------------------------------------------------
(* DataService.fetch_user_data (src/laboratorium5/src/services.py) *)

\* What a call of api.get_data() can end with: a value returned, a
\* ConnectionError raised, another exception raised.
ApiOutcomes ==
    [kind : {"return"}, value : 1..MaxValue]
      \cup {[kind |-> "ConnectionError", value |-> 0],
            [kind |-> "ValueError", value |-> 0]}

\* None, as the value a function returns on falling off its end.
ReturnNone == [kind |-> "return", value |-> 0]

\* fetch_user_data(api, retries) has been entered: attempt = 0, no call of
\* api.get_data() made yet.
FetchEntered(retries) ==
    [pc |-> "while", retries |-> retries, attempt |-> 0, log |-> << >>,
     outcome |-> ReturnNone]

\* `while attempt < retries:`; when the test fails the function falls off
\* its end and returns None.
FetchWhile ==
    /\ fetch.pc = "while"
    /\ fetch' = IF fetch.attempt < fetch.retries
                THEN [fetch EXCEPT !.pc = "try"]
                ELSE [fetch EXCEPT !.pc = "done", !.outcome = ReturnNone]
    /\ UNCHANGED <<duration, screenings, promotions, name, halls, reservations,
                   file, last, hist, callers, other>>

\* `return api.get_data()` inside the try: a value is returned to the
\* caller, a ConnectionError goes to the except clause, any other exception
\* goes to the caller.
FetchGetData(o) ==
    /\ fetch.pc = "try"
    /\ fetch' = IF o.kind = "ConnectionError"
                THEN [fetch EXCEPT !.pc = "except", !.log = Append(@, o)]
                ELSE [fetch EXCEPT !.pc = "done", !.log = Append(@, o),
                                   !.outcome = o]
    /\ UNCHANGED <<duration, screenings, promotions, name, halls, reservations,
                   file, last, hist, callers, other>>

\* Faulty variant of FetchExcept: the error is raised again only once
\* attempt is past retries.
FetchExceptOnePast ==
    /\ fetch.pc = "except"
    /\ fetch' = IF fetch.attempt + 1 > fetch.retries
                THEN [fetch EXCEPT !.pc = "done", !.attempt = @ + 1,
                                   !.outcome = fetch.log[Len(fetch.log)]]
                ELSE [fetch EXCEPT !.pc = "while", !.attempt = @ + 1]
    /\ UNCHANGED <<duration, screenings, promotions, name, halls, reservations,
                   file, last, hist, callers, other>>

\* `except ConnectionError: attempt += 1; if attempt >= retries: raise`.
FetchExcept ==
    /\ fetch.pc = "except"
    /\ fetch' = IF fetch.attempt + 1 >= fetch.retries
                THEN [fetch EXCEPT !.pc = "done", !.attempt = @ + 1,
                                   !.outcome = fetch.log[Len(fetch.log)]]
                ELSE [fetch EXCEPT !.pc = "while", !.attempt = @ + 1]
    /\ UNCHANGED <<duration, screenings, promotions, name, halls, reservations,
                   file, last, hist, callers, other>>

----------------------------------------------------------------------------
(* Spec: one Film and one Cinema; screenings are added, halls registered   *)
(* and removed, seats reserved and cancelled.                              *)

\* Seat counts a caller asks for: negative, zero, and up to one more than
\* any hall holds.
SeatRequests == -1..(MaxCapacity + 1)

\* Hall objects as Hall.__init__ leaves them.
FreshHalls == {h \in HallObjects : h.available_seats = h.capacity}

\* A Film with no screenings, a Cinema with no halls, nothing saved.
Init ==
    /\ duration \in Durations
    /\ screenings = << >>
    /\ promotions = EmptyDict
    /\ name = "Test Cinema"
    /\ halls = EmptyDict
    /\ reservations = EmptyDict
    /\ file = << >>
    /\ last = NoCall
    /\ hist = << >>
    /\ callers = << >>
    /\ other = NoFilm
    /\ fetch = NoFetch

Next ==
    \/ \E s \in ScreeningTimes :
          Len(screenings) < MaxScreenings /\ AddScreening(s) /\ UNCHANGED aside
    \/ \E h \in FreshHalls, ow \in BOOLEAN : AddHall(h, ow) /\ UNCHANGED aside
    \/ \E h \in FreshHalls : RemoveHall(h) /\ UNCHANGED aside
    \/ \E n \in 1..MaxHall : HallLookup(n) /\ UNCHANGED aside
    \/ \E s \in ScreeningTimes, seats \in SeatRequests, c \in BOOLEAN :
          Reserve(s, seats, c) /\ UNCHANGED aside
    \/ \E s \in ScreeningTimes, seats \in SeatRequests :
          CancelReservation(s, seats) /\ UNCHANGED aside

Spec == Init /\ [][Next]_vars

----------------------------------------------------------------------------
(* SpecFilm: the Film alone, screenings added and removed in any order.    *)

NextFilm ==
    \/ \E s \in ScreeningTimes : AddScreening(s) /\ UNCHANGED aside
    \/ \E s \in ScreeningTimes : RemoveScreening(s) /\ UNCHANGED aside

SpecFilm == Init /\ [][NextFilm]_vars

----------------------------------------------------------------------------
(* SpecUpcoming: the Film alone; screenings are added and removed, and the *)
(* upcoming ones asked for at any instant.                                 *)

\* The instants at which a caller asks: from the moment the objects were
\* built to past the latest start.
Instants == 0..(MaxStart + 1)

NextUpcoming ==
    \/ \E s \in ScreeningTimes : AddScreening(s) /\ UNCHANGED aside
    \/ \E s \in ScreeningTimes : RemoveScreening(s) /\ UNCHANGED aside
    \/ \E now \in Instants : UpcomingScreeningsCall(now) /\ UNCHANGED aside

SpecUpcoming == Init /\ [][NextUpcoming]_vars

----------------------------------------------------------------------------
(* SpecFilmObjects: the Film alone, up to MaxScreenings screenings in it,  *)
(* each call passed any of the MaxObjects objects of a (start, hall).      *)

NextFilmObjects ==
    \/ \E s \in ScreeningObjects :
          Len(screenings) < MaxScreenings /\ AddScreening(s) /\ UNCHANGED aside
    \/ \E s \in ScreeningObjects : RemoveScreening(s) /\ UNCHANGED aside

SpecFilmObjects == Init /\ [][NextFilmObjects]_vars

----------------------------------------------------------------------------
(* SpecPromotions: the Film alone; screenings are added and removed,       *)
(* promotions applied, looked up and removed, the clock read at each        *)
(* apply_promotion.                                                         *)

NextPromotions ==
    \/ \E s \in ScreeningTimes :
          Len(screenings) < MaxScreenings /\ AddScreening(s) /\ UNCHANGED aside
    \/ \E s \in ScreeningTimes : RemoveScreening(s) /\ UNCHANGED aside
    \/ \E s \in ScreeningObjects, p \in CinemaPromotions, now \in 0..MaxNow :
          ApplyPromotion(s, p, now) /\ UNCHANGED aside
    \/ \E s \in ScreeningObjects : RemovePromotion(s) /\ UNCHANGED aside
    \/ \E s \in ScreeningObjects : GetPromotionCall(s) /\ UNCHANGED aside

SpecPromotions == Init /\ [][NextPromotions]_vars

----------------------------------------------------------------------------
(* SpecPersist: Cinema.save and Cinema.load applied to a Cinema.           *)

LedgerKeys == {Key(s) : s \in ScreeningTimes}

\* The ledgers a Cinema can hold: at most MaxScreenings screenings were
\* reserved for, each entry within the capacity its hall had at the time.
Ledgers ==
    UNION {[ks -> 0..MaxCapacity] :
              ks \in {x \in SUBSET LedgerKeys : Cardinality(x) <= MaxScreenings}}

\* The hall maps a Cinema can hold: each registered hall a Hall object under
\* its own number, seats possibly reserved on it through Hall.reserve_seats.
HallMaps ==
    {hs \in UNION {[ns -> HallObjects] : ns \in SUBSET (1..MaxHall)} :
        \A n \in DOMAIN hs : hs[n].number = n}

\* Any Cinema that add_hall, remove_hall, Hall.reserve_seats, reserve and
\* cancel_reservation lead to from an empty one; nothing saved yet.
InitPersist ==
    /\ duration = MIN_DURATION
    /\ screenings = << >>
    /\ promotions = EmptyDict
    /\ name = "Test Cinema"
    /\ halls \in HallMaps
    /\ reservations \in Ledgers
    /\ file = << >>
    /\ last = NoCall
    /\ hist = << >>
    /\ callers = << >>
    /\ other = NoFilm
    /\ fetch = NoFetch

NextPersist ==
    \/ Save /\ UNCHANGED aside
    \/ Load /\ UNCHANGED aside

SpecPersist == InitPersist /\ [][NextPersist]_vars

----------------------------------------------------------------------------
(* SpecHall: a Film with one screening in each hall number and a Cinema;   *)
(* halls are registered, seats taken and given back on the Hall objects    *)
(* (directly and through Cinema.reserve_seats) and in the ledger.          *)

\* The list film.add_screening(ScreeningTime(1, h)) for h = 1, 2, .. leaves
\* in a new Film.
OneScreeningPerHall == [h \in 1..MaxHall |-> [start |-> 1, hall |-> h, id |-> 1]]

\* A Film with one screening in each hall, of the shortest duration; an
\* empty Cinema.
InitHall ==
    /\ duration = MIN_DURATION
    /\ screenings = OneScreeningPerHall
    /\ promotions = EmptyDict
    /\ name = "Test Cinema"
    /\ halls = EmptyDict
    /\ reservations = EmptyDict
    /\ file = << >>
    /\ last = NoCall
    /\ hist = << >>
    /\ callers = << >>
    /\ other = NoFilm
    /\ fetch = NoFetch

NextHall ==
    \/ \E h \in FreshHalls, ow \in BOOLEAN : AddHall(h, ow) /\ UNCHANGED aside
    \/ \E n \in DOMAIN halls, seats \in SeatRequests :
          HallReserveSeats(n, seats) /\ UNCHANGED aside
    \/ \E n \in DOMAIN halls, seats \in SeatRequests :
          HallCancelReservation(n, seats) /\ UNCHANGED aside
    \/ \E n \in DOMAIN halls, seats \in SeatRequests :
          CinemaReserveSeats(halls[n], TRUE, seats) /\ UNCHANGED aside
    \/ \E h \in FreshHalls, seats \in SeatRequests :
          CinemaReserveSeats(h, FALSE, seats) /\ UNCHANGED aside
    \/ \E s \in ScreeningTimes, seats \in SeatRequests, c \in BOOLEAN :
          Reserve(s, seats, c) /\ UNCHANGED aside
    \/ \E s \in ScreeningTimes, seats \in SeatRequests :
          CancelReservation(s, seats) /\ UNCHANGED aside

SpecHall == InitHall /\ [][NextHall]_vars

----------------------------------------------------------------------------
(* SpecOneCall: one call of any operation, made on a Film and a Cinema     *)
(* that earlier calls have left in any of the states below.                *)

\* The lists Film.screenings can hold: add_screening has put in them, one by
\* one and in this order, screenings that are not equal and do not collide.
FilmLists(d) ==
    {l \in UNION {[1..n -> ScreeningTimes] : n \in 0..MaxScreenings} :
        /\ \A i \in 1..(Len(l) - 1) : l[i].start <= l[i + 1].start
        /\ \A i, j \in 1..Len(l) :
              i < j => /\ ~ScreeningTimeEq(l[i], l[j])
                       /\ ~(l[i].hall = l[j].hall /\ Conflicts(l[i], l[j], d))}

\* The maps Film._promotions can hold: apply_promotion has stored unexpired
\* promotions for screenings of the film, some of them removed from the
\* film since.
PromotionMaps ==
    UNION {[ks -> CinemaPromotions] :
              ks \in {x \in SUBSET {PromotionKey(s) : s \in ScreeningTimes} :
                         Cardinality(x) <= MaxScreenings}}

\* The snapshots Cinema.load may find in a file of the shape Cinema.save
\* writes: up to MaxRecords halls and ledger records, whatever their
\* numbers, a hall record possibly without its "available_seats" key.
SnapshotHalls ==
    [number : 1..MaxHall, capacity : 0..MaxCapacity,
     available_seats : -1..(MaxCapacity + 1)]
      \cup [number : 1..MaxHall, capacity : 0..MaxCapacity]

SnapshotReservations ==
    [hall : 1..MaxHall, screening_start : {IsoFormat(t) : t \in 1..MaxStart},
     reserved : 0..MaxCapacity]

Snapshots ==
    [meta : {[name |-> "Test Cinema"]},
     halls : UNION {[1..n -> SnapshotHalls] : n \in 0..MaxRecords},
     reservations : UNION {[1..n -> SnapshotReservations] : n \in 0..MaxRecords}]

\* Every hall number registered with a new Hall of the largest capacity.
AllHalls == [n \in 1..MaxHall |-> NewHall(n, MaxCapacity)]

\* Either any Film next to a Cinema of new halls, or any Cinema next to a
\* Film of one screening in each hall, or a new Cinema and any snapshot in the file.
InitOneCall ==
    /\ name = "Test Cinema"
    /\ last = NoCall
    /\ hist = << >>
    /\ callers = << >>
    /\ other = NoFilm
    /\ fetch = NoFetch
    /\ \/ /\ duration \in Durations
          /\ screenings \in FilmLists(duration)
          /\ promotions \in PromotionMaps
          /\ halls = AllHalls
          /\ reservations = EmptyDict
          /\ file = << >>
       \/ /\ duration = MIN_DURATION
          /\ screenings = OneScreeningPerHall
          /\ promotions = EmptyDict
          /\ halls \in HallMaps
          /\ reservations \in Ledgers
          /\ file = << >>
       \/ /\ duration = MIN_DURATION
          /\ screenings = OneScreeningPerHall
          /\ promotions = EmptyDict
          /\ halls = EmptyDict
          /\ reservations = EmptyDict
          /\ file \in {<<p>> : p \in Snapshots}

NextOneCall ==
    \/ \E s \in ScreeningObjects :
          last.op = "none" /\ AddScreening(s) /\ UNCHANGED aside
    \/ \E s \in ScreeningObjects :
          last.op = "none" /\ CinemaAddScreening(s) /\ UNCHANGED aside
    \/ \E s \in ScreeningObjects :
          last.op = "none" /\ RemoveScreening(s) /\ UNCHANGED aside
    \/ \E s \in ScreeningObjects, p \in CinemaPromotions, now \in 0..MaxNow :
          last.op = "none" /\ ApplyPromotion(s, p, now) /\ UNCHANGED aside
    \/ \E s \in ScreeningObjects :
          last.op = "none" /\ RemovePromotion(s) /\ UNCHANGED aside
    \/ \E s \in ScreeningObjects :
          last.op = "none" /\ GetPromotionCall(s) /\ UNCHANGED aside
    \/ \E n \in DOMAIN halls, seats \in SeatRequests :
          last.op = "none" /\ HallReserveSeats(n, seats) /\ UNCHANGED aside
    \/ \E n \in DOMAIN halls, seats \in SeatRequests :
          last.op = "none" /\ HallCancelReservation(n, seats) /\ UNCHANGED aside
    \/ \E n \in DOMAIN halls, seats \in SeatRequests :
          /\ last.op = "none"
          /\ CinemaReserveSeats(halls[n], TRUE, seats)
          /\ UNCHANGED aside
    \/ \E h \in HallObjects, seats \in SeatRequests :
          last.op = "none" /\ CinemaReserveSeats(h, FALSE, seats) /\ UNCHANGED aside
    \/ \E h \in FreshHalls, ow \in BOOLEAN :
          last.op = "none" /\ AddHall(h, ow) /\ UNCHANGED aside
    \/ \E h \in HallObjects :
          last.op = "none" /\ RemoveHall(h) /\ UNCHANGED aside
    \/ \E n \in 1..MaxHall :
          last.op = "none" /\ HallLookup(n) /\ UNCHANGED aside
    \/ \E s \in ScreeningTimes, seats \in SeatRequests, c \in BOOLEAN :
          last.op = "none" /\ Reserve(s, seats, c) /\ UNCHANGED aside
    \/ \E s \in ScreeningTimes, seats \in SeatRequests :
          last.op = "none" /\ CancelReservation(s, seats) /\ UNCHANGED aside
    \/ last.op = "none" /\ Save /\ UNCHANGED aside
    \/ last.op = "none" /\ Load /\ UNCHANGED aside

SpecOneCall == InitOneCall /\ [][NextOneCall]_vars

----------------------------------------------------------------------------
(* SpecSnapshot: a snapshot of the shape Cinema.save writes lies in the    *)
(* file, or there is no file; a new Cinema registers halls or is replaced by the loaded one,    *)
(* and seats are taken and given back on the Hall objects.                 *)

InitSnapshot ==
    /\ duration = MIN_DURATION
    /\ screenings = OneScreeningPerHall
    /\ promotions = EmptyDict
    /\ name = "Test Cinema"
    /\ halls = EmptyDict
    /\ reservations = EmptyDict
    /\ file \in {<< >>} \cup {<<p>> : p \in {q \in Snapshots : q.reservations = << >>}}
    /\ last = NoCall
    /\ hist = << >>
    /\ callers = << >>
    /\ other = NoFilm
    /\ fetch = NoFetch

NextSnapshot ==
    \/ Load /\ UNCHANGED aside
    \/ \E h \in FreshHalls, ow \in BOOLEAN : AddHall(h, ow) /\ UNCHANGED aside
    \/ \E n \in DOMAIN halls, seats \in SeatRequests :
          HallReserveSeats(n, seats) /\ UNCHANGED aside
    \/ \E n \in DOMAIN halls, seats \in SeatRequests :
          HallCancelReservation(n, seats) /\ UNCHANGED aside
    \/ \E n \in DOMAIN halls, seats \in SeatRequests :
          CinemaReserveSeats(halls[n], TRUE, seats) /\ UNCHANGED aside
    \/ \E h \in FreshHalls, seats \in SeatRequests :
          CinemaReserveSeats(h, FALSE, seats) /\ UNCHANGED aside

SpecSnapshot == InitSnapshot /\ [][NextSnapshot]_vars

----------------------------------------------------------------------------
(* SpecConcurrent: a Film with one screening in each hall number and a     *)
(* Cinema of new halls; Cinema.reserve is called either by one caller, a   *)
(* call at a time, or once by each of MaxCallers callers whose calls       *)
(* interleave statement by statement.                                      *)

\* The hall maps add_hall leaves in a new Cinema.
FreshHallMaps == {hs \in HallMaps : \A n \in DOMAIN hs : hs[n] \in FreshHalls}

InitConcurrent ==
    /\ duration = MIN_DURATION
    /\ screenings = OneScreeningPerHall
    /\ promotions = EmptyDict
    /\ name = "Test Cinema"
    /\ halls \in FreshHallMaps
    /\ reservations = EmptyDict
    /\ file = << >>
    /\ last = NoCall
    /\ hist = << >>
    /\ callers \in {<< >>, [t \in 1..MaxCallers |-> IdleCaller]}
    /\ other = NoFilm
    /\ fetch = NoFetch

NextConcurrent ==
    \/ \E s \in ScreeningTimes, seats \in SeatRequests, c \in BOOLEAN :
          callers = << >> /\ Reserve(s, seats, c) /\ UNCHANGED aside
    \/ \E t \in DOMAIN callers, s \in ScreeningTimes, seats \in SeatRequests,
          c \in BOOLEAN : ReserveValidate(t, s, seats, c)
    \/ \E t \in DOMAIN callers : ReserveRead(t)
    \/ \E t \in DOMAIN callers : ReserveWrite(t)

SpecConcurrent == InitConcurrent /\ [][NextConcurrent]_vars

----------------------------------------------------------------------------
(* SpecFetch: one call of DataService.fetch_user_data(api, retries), the   *)
(* api answering each get_data() as it likes; the interpreter keeps        *)
(* executing the call's statements until it returns or raises.             *)

InitFetch ==
    /\ duration = MIN_DURATION
    /\ screenings = << >>
    /\ promotions = EmptyDict
    /\ name = "Test Cinema"
    /\ halls = EmptyDict
    /\ reservations = EmptyDict
    /\ file = << >>
    /\ last = NoCall
    /\ hist = << >>
    /\ callers = << >>
    /\ other = NoFilm
    /\ fetch \in {FetchEntered(r) : r \in -1..MaxRetries}

NextFetch ==
    \/ FetchWhile
    \/ \E o \in ApiOutcomes : FetchGetData(o)
    \/ FetchExcept

SpecFetch == InitFetch /\ [][NextFetch]_vars /\ WF_vars(NextFetch)

----------------------------------------------------------------------------
(* SpecRemoval: a Film and a Cinema with every hall number registered;     *)
(* screenings are added and removed, seats reserved and cancelled.         *)

\* A Film of the shortest duration with no screenings; add_hall has
\* registered a new Hall of the largest capacity under every number.
InitRemoval ==
    /\ duration = MIN_DURATION
    /\ screenings = << >>
    /\ promotions = EmptyDict
    /\ name = "Test Cinema"
    /\ halls = AllHalls
    /\ reservations = EmptyDict
    /\ file = << >>
    /\ last = NoCall
    /\ hist = << >>
    /\ callers = << >>
    /\ other = NoFilm
    /\ fetch = NoFetch

NextRemoval ==
    \/ \E s \in ScreeningTimes :
          Len(screenings) < MaxScreenings /\ AddScreening(s) /\ UNCHANGED aside
    \/ \E s \in ScreeningTimes : RemoveScreening(s) /\ UNCHANGED aside
    \/ \E s \in ScreeningTimes, seats \in SeatRequests, c \in BOOLEAN :
          Reserve(s, seats, c) /\ UNCHANGED aside
    \/ \E s \in ScreeningTimes, seats \in SeatRequests :
          CancelReservation(s, seats) /\ UNCHANGED aside

SpecRemoval == InitRemoval /\ [][NextRemoval]_vars

----------------------------------------------------------------------------
(* SpecTwoFilms: a Cinema with hall 1, a Film with one screening in it and *)
(* a second Film; up to MaxCalls calls add an equal screening to the       *)
(* second Film and reserve and cancel seats through either Film.           *)

\* The screening of the first Film, and the object of the same start and
\* hall that the second Film is given.
SharedScreening == [start |-> 1, hall |-> 1, id |-> 1]
SharedScreeningOfOther == [start |-> 1, hall |-> 1, id |-> MaxObjects]

InitTwoFilms ==
    /\ duration = MIN_DURATION
    /\ screenings = <<SharedScreening>>
    /\ promotions = EmptyDict
    /\ name = "Test Cinema"
    /\ halls \in {DictSet(EmptyDict, 1, NewHall(1, c)) : c \in 1..MaxCapacity}
    /\ reservations = EmptyDict
    /\ file = << >>
    /\ last = NoCall
    /\ hist = << >>
    /\ callers = << >>
    /\ other \in [duration : Durations, screenings : {<< >>}]
    /\ fetch = NoFetch

NextTwoFilms ==
    \/ /\ Len(hist) < MaxCalls
       /\ OtherAddScreening(SharedScreeningOfOther)
       /\ hist' = Append(hist, last')
    \/ \E seats \in 1..(MaxCapacity + 1) :
          /\ Len(hist) < MaxCalls
          /\ Reserve(SharedScreening, seats, TRUE)
          /\ hist' = Append(hist, last')
          /\ UNCHANGED <<callers, other, fetch>>
    \/ \E seats \in 1..(MaxCapacity + 1) :
          /\ Len(hist) < MaxCalls
          /\ OtherReserve(SharedScreeningOfOther, seats, TRUE)
          /\ hist' = Append(hist, last')
    \/ \E seats \in 1..(MaxCapacity + 1) :
          /\ Len(hist) < MaxCalls
          /\ CancelReservation(SharedScreening, seats)
          /\ hist' = Append(hist, last')
          /\ UNCHANGED <<callers, other, fetch>>
    \/ \E seats \in 1..(MaxCapacity + 1) :
          /\ Len(hist) < MaxCalls
          /\ OtherCancelReservation(SharedScreeningOfOther, seats)
          /\ hist' = Append(hist, last')

SpecTwoFilms == InitTwoFilms /\ [][NextTwoFilms]_vars

----------------------------------------------------------------------------
(* SpecOrder: two Films of the same duration, each given screenings by     *)
(* add_screening in an order of its own.                                   *)

InitOrder ==
    /\ duration \in Durations
    /\ screenings = << >>
    /\ promotions = EmptyDict
    /\ name = "Test Cinema"
    /\ halls = EmptyDict
    /\ reservations = EmptyDict
    /\ file = << >>
    /\ last = NoCall
    /\ hist = << >>
    /\ callers = << >>
    /\ other = [duration |-> duration, screenings |-> << >>]
    /\ fetch = NoFetch

NextOrder ==
    \/ \E s \in ScreeningTimes : AddScreening(s) /\ UNCHANGED aside
    \/ \E s \in ScreeningTimes : OtherAddScreening(s) /\ UNCHANGED hist

SpecOrder == InitOrder /\ [][NextOrder]_vars

----------------------------------------------------------------------------
(* SpecScenarioA: the Cinema of the tests' set-up (one hall of 100 seats,  *)
(* a film of 120 minutes with one screening in that hall) and a script of  *)
(* reserve / cancel_reservation calls on that screening.                   *)

ScenarioCapacity == 100
ScenarioDuration == 120
MaxScript == 5

ScenarioScreening == [start |-> 60, hall |-> 1, id |-> 1]

ScenarioSeats == {1, 20, 30, 50}

InitScenarioA ==
    /\ duration = ScenarioDuration
    /\ screenings = <<ScenarioScreening>>
    /\ promotions = EmptyDict
    /\ name = "Test Cinema"
    /\ halls = DictSet(EmptyDict, 1, NewHall(1, ScenarioCapacity))
    /\ reservations = EmptyDict
    /\ file = << >>
    /\ last = NoCall
    /\ hist = << >>
    /\ callers = << >>
    /\ other = NoFilm
    /\ fetch = NoFetch

NextScenarioA ==
    \/ \E seats \in ScenarioSeats :
          /\ Len(hist) < MaxScript
          /\ Reserve(ScenarioScreening, seats, TRUE)
          /\ hist' = Append(hist, last')
          /\ UNCHANGED <<callers, other, fetch>>
    \/ \E seats \in ScenarioSeats :
          /\ Len(hist) < MaxScript
          /\ CancelReservation(ScenarioScreening, seats)
          /\ hist' = Append(hist, last')
          /\ UNCHANGED <<callers, other, fetch>>

SpecScenarioA == InitScenarioA /\ [][NextScenarioA]_vars

----------------------------------------------------------------------------
(* Properties of the Film (SpecFilm) *)

\* Half-open intervals [a.start, a.start + d) and [b.start, b.start + d)
\* intersect.
Intersect(a, b, d) == a.start < b.start + d /\ b.start < a.start + d

\* C2: after any sequence of add_screening and remove_screening calls,
\* successful or failing, no two distinct members of screenings share a
\* hall and have intersecting intervals [start, start + duration).
C2_NoOverlapInSameHall ==
    \A i, j \in 1..Len(screenings) :
        (i # j /\ screenings[i].hall = screenings[j].hall)
            => ~Intersect(screenings[i], screenings[j], duration)

\* Two screenings of one hall are in the list and the latest add_screening
\* was refused.
C2_Witness ==
    /\ \E i, j \in 1..Len(screenings) :
          i # j /\ screenings[i].hall = screenings[j].hall
    /\ last.op = "add_screening"
    /\ last.result # Ok

\* C3: after any sequence of add_screening and remove_screening calls, in
\* any insertion order, screenings is sorted ascending by start.
C3_SortedByStart ==
    \A i \in 1..(Len(screenings) - 1) :
        screenings[i].start <= screenings[i + 1].start

\* The screening added last starts before one added earlier and now stands
\* in front of it.
C3_Witness ==
    /\ last.op = "add_screening"
    /\ last.result = Ok
    /\ Len(screenings) >= 2
    /\ screenings[1] = last.s
    /\ screenings[2].start > last.s.start

\* C4: add_screening(s) of a screening not yet present raises
\* ScheduleConflictError if and only if some existing screening of the same
\* hall has an interval [start, start + duration) that intersects that of s;
\* otherwise s is accepted.  Back-to-back screenings and screenings of
\* different halls are therefore accepted.
C4_ConflictIffIntersect ==
    [][(last'.op = "add_screening" /\ ~Contains(screenings, last'.s)) =>
         LET s == last'.s
             hit == \E e \in Range(screenings) :
                        e.hall = s.hall /\ Intersect(e, s, duration)
         IN /\ (last'.result.kind = "ScheduleConflictError") <=> hit
            /\ ~hit => (last'.result = Ok /\ s \in Range(screenings'))
            /\ hit => screenings' = screenings]_vars

\* A screening that ends exactly when an existing one of the same hall
\* starts has just been accepted.
C4_Witness ==
    /\ last.op = "add_screening"
    /\ last.result = Ok
    /\ \E e \in Range(screenings) :
          e.hall = last.s.hall /\ last.s.start + duration = e.start

----------------------------------------------------------------------------
(* Properties of the reservation ledger (Spec) *)

\* C1: every entry of the ledger satisfies 0 <= reserved <= capacity of the
\* hall registered under the entry's hall number.
C1_LedgerWithinCapacity ==
    \A k \in DOMAIN reservations :
        k[1] \in DOMAIN halls =>
            (0 <= reservations[k] /\ reservations[k] <= halls[k[1]].capacity)

\* C5: reserve(film, screening, seats) with seats > 0, the screening in the
\* film and its hall registered fails with ReservationError exactly when
\* seats plus the seats already reserved under the key exceed the hall's
\* capacity, and then leaves the ledger (and available_seats) as it was;
\* otherwise the key's count grows by exactly seats and no other entry
\* changes.
C5_ReserveWithinCapacity ==
    [][(/\ last'.op = "reserve"
        /\ last'.commit
        /\ last'.seats > 0
        /\ Contains(screenings, last'.s)
        /\ last'.s.hall \in DOMAIN halls) =>
         LET s == last'.s
             before == DictGet(reservations, Key(s), 0)
         IN IF last'.seats + before > halls[s.hall].capacity
            THEN /\ last'.result.kind = "ReservationError"
                 /\ reservations' = reservations
                 /\ AvailableSeats(halls', reservations', s)
                       = AvailableSeats(halls, reservations, s)
            ELSE /\ last'.result = Ok
                 /\ DOMAIN reservations' = DOMAIN reservations \cup {Key(s)}
                 /\ reservations'[Key(s)] = before + last'.seats
                 /\ \A k \in DOMAIN reservations \ {Key(s)} :
                       reservations'[k] = reservations[k]]_vars

\* A request that would fit an empty hall was refused because of the seats
\* already reserved for the screening.
C5_Witness ==
    /\ last.op = "reserve"
    /\ last.commit
    /\ last.result.kind = "ReservationError"
    /\ Contains(screenings, last.s)
    /\ last.s.hall \in DOMAIN halls
    /\ last.seats > 0
    /\ last.seats <= halls[last.s.hall].capacity
    /\ DictGet(reservations, Key(last.s), 0) > 0

\* C6: cancel_reservation(film, screening, seats) with seats > 0, the
\* screening in the film and its hall registered fails with
\* ReservationError if and only if seats exceeds the count reserved under
\* the key, leaving the ledger as it was; otherwise the entry drops by
\* exactly seats and available_seats(screening) is the capacity minus what
\* remains reserved.
C6_CancelWithinReserved ==
    [][(/\ last'.op = "cancel_reservation"
        /\ last'.seats > 0
        /\ Contains(screenings, last'.s)
        /\ last'.s.hall \in DOMAIN halls) =>
         LET s == last'.s
             before == DictGet(reservations, Key(s), 0)
         IN IF last'.seats > before
            THEN /\ last'.result.kind = "ReservationError"
                 /\ reservations' = reservations
            ELSE /\ last'.result = Ok
                 /\ DOMAIN reservations' = DOMAIN reservations
                 /\ reservations'[Key(s)] = before - last'.seats
                 /\ \A k \in DOMAIN reservations \ {Key(s)} :
                       reservations'[k] = reservations[k]
                 /\ AvailableSeats(halls', reservations', s)
                       = halls[s.hall].capacity - (before - last'.seats)]_vars

\* Part of a reservation has just been cancelled; some seats stay reserved.
C6_Witness ==
    /\ last.op = "cancel_reservation"
    /\ last.result = Ok
    /\ DictGet(reservations, Key(last.s), 0) > 0

\* C9: reserve with commit=false changes neither the ledger, the halls nor
\* the film, and the outcome of reserve (the error raised, or none) is the
\* same function of the state, the screening and the seats whatever commit
\* is.
C9_DryRunChangesNothing ==
    [][(last'.op = "reserve") =>
         /\ last'.result = ValidateReservationRequest(
                               screenings, halls, reservations, last'.s, last'.seats)
         /\ ~last'.commit =>
               /\ reservations' = reservations
               /\ halls' = halls
               /\ screenings' = screenings
               /\ duration' = duration]_vars

\* A dry run has just passed validation for a screening that has no entry
\* in the ledger.
C9_Witness ==
    /\ last.op = "reserve"
    /\ ~last.commit
    /\ last.result = Ok
    /\ Key(last.s) \notin DOMAIN reservations

\* C10: reserve reports the first failing precondition in the order
\* seats > 0 (ValidationError), screening in film.screenings
\* (ReservationError), hall registered (ReservationError), capacity
\* (ReservationError).
C10_ChecksInOrder ==
    [][(last'.op = "reserve") =>
         LET s == last'.s
             r == last'.result
         IN IF last'.seats <= 0
            THEN r = Raise("ValidationError", "Number of seats must be positive")
            ELSE IF ~Contains(screenings, s)
            THEN r = Raise("ReservationError",
                           "Screening does not belong to the given film")
            ELSE IF s.hall \notin DOMAIN halls
            THEN r = Raise("ReservationError", "Hall not registered in cinema")
            ELSE \/ r = Ok
                 \/ /\ r = Raise("ReservationError",
                                 "Requested seats, but only available left")
                    /\ last'.seats > AvailableSeats(halls, reservations, s)]_vars

\* A request for no seats, for a screening outside the film and in an
\* unregistered hall, was refused with ValidationError.
C10_Witness ==
    /\ last.op = "reserve"
    /\ last.seats <= 0
    /\ ~Contains(screenings, last.s)
    /\ last.s.hall \notin DOMAIN halls
    /\ last.result.kind = "ValidationError"

----------------------------------------------------------------------------
(* Scenario A (SpecScenarioA) *)

\* The first n calls of the script were ops[i] with seats[i].
Script(n, ops, seats) ==
    /\ Len(hist) >= n
    /\ \A i \in 1..n : hist[i].op = ops[i] /\ hist[i].seats = seats[i]

ScenarioReserved == DictGet(reservations, Key(ScenarioScreening), 0)

ScenarioAvailable == AvailableSeats(halls, reservations, ScenarioScreening)

\* C7 as stated: after reserve 50 and cancel 30, 20 seats are reserved and
\* 80 available; cancelling 30 more then succeeds and leaves 0 reserved;
\* cancelling 1 more after that fails with ReservationError.
C7_AsStated ==
    /\ (Len(hist) = 2 /\ Script(2, <<"reserve", "cancel_reservation">>, <<50, 30>>))
          => (ScenarioReserved = 20 /\ ScenarioAvailable = 80)
    /\ (Len(hist) = 3
        /\ Script(3, <<"reserve", "cancel_reservation", "cancel_reservation">>,
                  <<50, 30, 30>>))
          => (hist[3].result = Ok /\ ScenarioReserved = 0)
    /\ Script(4, <<"reserve", "cancel_reservation", "cancel_reservation",
                   "cancel_reservation">>, <<50, 30, 30, 1>>)
          => hist[4].result.kind = "ReservationError"

\* C7 amended: after reserve 50 and cancel 30, 20 seats are reserved and 80
\* available; cancelling 30 more then fails with ReservationError and
\* leaves 20 reserved; cancelling 20 then succeeds and leaves 0 reserved;
\* cancelling 1 more after that fails with ReservationError.
C7_ScenarioA ==
    /\ (Len(hist) = 2 /\ Script(2, <<"reserve", "cancel_reservation">>, <<50, 30>>))
          => /\ hist[1].result = Ok
             /\ hist[2].result = Ok
             /\ ScenarioReserved = 20
             /\ ScenarioAvailable = 80
    /\ (Len(hist) = 3
        /\ Script(3, <<"reserve", "cancel_reservation", "cancel_reservation">>,
                  <<50, 30, 30>>))
          => (hist[3].result.kind = "ReservationError" /\ ScenarioReserved = 20)
    /\ (Len(hist) = 4
        /\ Script(4, <<"reserve", "cancel_reservation", "cancel_reservation",
                       "cancel_reservation">>, <<50, 30, 30, 20>>))
          => (hist[4].result = Ok /\ ScenarioReserved = 0)
    /\ (Len(hist) = 5
        /\ Script(5, <<"reserve", "cancel_reservation", "cancel_reservation",
                       "cancel_reservation", "cancel_reservation">>,
                  <<50, 30, 30, 20, 1>>))
          => (hist[5].result.kind = "ReservationError" /\ ScenarioReserved = 0)

\* The whole amended script has run.
C7_Witness ==
    /\ Len(hist) = 5
    /\ Script(5, <<"reserve", "cancel_reservation", "cancel_reservation",
                   "cancel_reservation", "cancel_reservation">>,
              <<50, 30, 30, 20, 1>>)
    /\ hist[5].result.kind = "ReservationError"

----------------------------------------------------------------------------
(* Round trip (SpecPersist) *)

\* C8: load(save(c)) has the name of c, the same halls with identical
\* number, capacity and available_seats, and the same ledger, so
\* available_seats(screening) agrees on both for every screening of a
\* registered hall.
C8_RoundTrip ==
    LET c == LoadCinema(SavePayload(name, halls, reservations))
    IN /\ c.name = name
       /\ c.halls = halls
       /\ c.reservations = reservations
       /\ \A s \in ScreeningTimes :
             s.hall \in DOMAIN halls =>
                AvailableSeats(c.halls, c.reservations, s)
                   = AvailableSeats(halls, reservations, s)

\* A saved Cinema with seats taken on a Hall's own counter and a non-empty
\* ledger has been loaded back.
C8_Witness ==
    /\ last.op = "load"
    /\ last.result = Ok
    /\ \E n \in DOMAIN halls : halls[n].available_seats < halls[n].capacity
    /\ \E k \in DOMAIN reservations : reservations[k] > 0

----------------------------------------------------------------------------
(* The ledger and the Halls' own counters (SpecHall) *)

\* The hall maps that differ from hs in available_seats counters only.
CounterVariants(hs) ==
    {[n \in DOMAIN hs |-> [hs[n] EXCEPT !.available_seats = free[n]]] :
        free \in {f \in [DOMAIN hs -> 0..MaxCapacity] :
                     \A n \in DOMAIN hs : f[n] <= hs[n].capacity}}

\* C11: the outcome of reserve / cancel_reservation and the ledger they
\* leave are the same in every Cinema state that differs from the current
\* one only in Halls' available_seats counters, and these calls leave every
\* Hall (its available_seats included) as it was.
C11_LedgerOnly ==
    [][(last'.op \in {"reserve", "cancel_reservation"}) =>
         LET s == last'.s
             n == last'.seats
             out(hs) == IF last'.op = "reserve"
                        THEN ValidateReservationRequest(screenings, hs, reservations, s, n)
                        ELSE ValidateCancellationRequest(screenings, hs, reservations, s, n)
             ledger(hs) == IF out(hs) # Ok THEN reservations
                           ELSE IF last'.op = "reserve"
                                THEN ReserveCommit(reservations, s, n, last'.commit)
                                ELSE CancelCommit(reservations, s, n)
         IN /\ halls' = halls
            /\ \A hs2 \in CounterVariants(halls) :
                  /\ last'.result = out(hs2)
                  /\ reservations' = ledger(hs2)]_vars

\* Seats have just been reserved in the ledger for a screening whose Hall's
\* own counter stands at zero.
C11_Witness ==
    /\ last.op = "reserve"
    /\ last.commit
    /\ last.result = Ok
    /\ halls[last.s.hall].available_seats = 0
    /\ reservations[Key(last.s)] = last.seats

----------------------------------------------------------------------------
(* Failing calls (SpecOneCall) *)

\* C12: a call of any operation of Film, Hall or Cinema that fails with
\* ValidationError, ScheduleConflictError or ReservationError leaves
\* Film.screenings, the promotion map, the hall map (each Hall's
\* available_seats included), the Hall object passed to the call and the
\* ledger as they were before the call.
C12_FailureChangesNothing ==
    [][(last'.result.kind \in
           {"ValidationError", "ScheduleConflictError", "ReservationError"}) =>
         /\ screenings' = screenings
         /\ promotions' = promotions
         /\ halls' = halls
         /\ reservations' = reservations
         /\ last'.hall = last'.before
         /\ duration' = duration
         /\ name' = name]_vars

\* A cancel_reservation for more seats than the entry holds has just failed
\* with ReservationError, the entry holding some seats.
C12_Witness ==
    /\ last.op = "cancel_reservation"
    /\ last.result.kind = "ReservationError"
    /\ Key(last.s) \in DOMAIN reservations
    /\ reservations[Key(last.s)] > 0
    /\ last.seats > reservations[Key(last.s)]

----------------------------------------------------------------------------
(* The Hall's own counter (SpecSnapshot, SpecHall) *)

\* 0 <= available_seats <= capacity and capacity > 0.
HallInvariant(h) ==
    h.capacity > 0 /\ 0 <= h.available_seats /\ h.available_seats <= h.capacity

\* C13: every Hall reached through Hall.__init__, Hall.reserve_seats,
\* Hall.cancel_reservation, Cinema.reserve_seats and Cinema.load has
\* 0 <= available_seats <= capacity and capacity > 0: the halls the Cinema
\* holds and the Hall object of the latest call.
C13_HallWithinCapacity ==
    /\ \A n \in DOMAIN halls : HallInvariant(halls[n])
    /\ last.hall # NoHall => HallInvariant(last.hall)

\* C14: Hall.reserve_seats(n) fails with ValidationError if n <= 0, fails
\* with ReservationError if n > available_seats, and otherwise takes exactly
\* n from available_seats (so a request for all the seats left succeeds and
\* leaves 0); a failing call changes nothing, and no call changes the
\* capacity, the number or another hall.
C14_HallReserveSeats ==
    [][(last'.op = "hall_reserve_seats") =>
         LET n == last'.seats
             k == last'.number
             h == halls[k]
         IN /\ IF n <= 0
               THEN last'.result.kind = "ValidationError" /\ halls' = halls
               ELSE IF n > h.available_seats
               THEN last'.result.kind = "ReservationError" /\ halls' = halls
               ELSE /\ last'.result = Ok
                    /\ halls'[k].available_seats = h.available_seats - n
                    /\ n = h.available_seats => halls'[k].available_seats = 0
            /\ DOMAIN halls' = DOMAIN halls
            /\ halls'[k].capacity = h.capacity
            /\ halls'[k].number = h.number
            /\ \A j \in DOMAIN halls \ {k} : halls'[j] = halls[j]]_vars

\* All the seats left in a hall that was partly taken have just been
\* reserved.
C14_Witness ==
    /\ last.op = "hall_reserve_seats"
    /\ last.result = Ok
    /\ last.seats = last.before.available_seats
    /\ last.before.available_seats < last.before.capacity
    /\ halls[last.number].available_seats = 0

\* C15: Hall.cancel_reservation(n) fails with ValidationError if n <= 0,
\* fails with ReservationError if n > capacity - available_seats, and
\* otherwise gives exactly n back to available_seats; a failing call
\* changes nothing; cancel_reservation(n) right after a successful
\* reserve_seats(n) on the same hall succeeds and restores the
\* available_seats from before the reserve_seats.
C15_HallCancelReservation ==
    [][(last'.op = "hall_cancel_reservation") =>
         LET n == last'.seats
             k == last'.number
             h == halls[k]
         IN /\ IF n <= 0
               THEN last'.result.kind = "ValidationError" /\ halls' = halls
               ELSE IF n > h.capacity - h.available_seats
               THEN last'.result.kind = "ReservationError" /\ halls' = halls
               ELSE /\ last'.result = Ok
                    /\ halls'[k].available_seats = h.available_seats + n
            /\ DOMAIN halls' = DOMAIN halls
            /\ halls'[k].capacity = h.capacity
            /\ halls'[k].number = h.number
            /\ \A j \in DOMAIN halls \ {k} : halls'[j] = halls[j]
            /\ (/\ last.op = "hall_reserve_seats"
                /\ last.result = Ok
                /\ last.number = k
                /\ last.seats = n) =>
                  /\ last'.result = Ok
                  /\ halls'[k].available_seats = last.before.available_seats]_vars

\* Some of the seats taken in a hall have just been given back, one seat
\* staying taken.
C15_Witness ==
    /\ last.op = "hall_cancel_reservation"
    /\ last.result = Ok
    /\ last.seats = last.before.capacity - last.before.available_seats - 1
    /\ halls[last.number].available_seats = last.before.available_seats + last.seats

----------------------------------------------------------------------------
(* The hall map (Spec) *)

\* C16: add_hall(h) with overwrite=false and h.number registered fails with
\* ValidationError and leaves the hall map as it was; with overwrite=true,
\* or h.number free, h becomes the hall registered under h.number and the
\* other halls stay; every hall is registered under its own number, so no
\* number is registered twice.
C16_AddHall ==
    [][/\ (last'.op = "add_hall") =>
            LET h == last'.hall
            IN IF ~last'.overwrite /\ h.number \in DOMAIN halls
               THEN /\ last'.result.kind = "ValidationError"
                    /\ halls' = halls
               ELSE /\ last'.result = Ok
                    /\ DOMAIN halls' = DOMAIN halls \cup {h.number}
                    /\ halls'[h.number] = h
                    /\ \A n \in DOMAIN halls \ {h.number} : halls'[n] = halls[n]
       /\ \A n \in DOMAIN halls' : halls'[n].number = n]_vars

\* add_hall without overwrite has just been refused for a hall that differs
\* from the one registered under its number.
C16_Witness ==
    /\ last.op = "add_hall"
    /\ ~last.overwrite
    /\ last.result.kind = "ValidationError"
    /\ halls[last.hall.number] # last.hall

\* C17: remove_hall(h) fails with ValidationError when h.number is not
\* registered and leaves the hall map as it was; otherwise it removes
\* exactly the hall registered under h.number, whichever Hall object h is.
\* After that hall(h.number) raises KeyError, and reserve for a screening
\* in that hall fails: with ReservationError when seats > 0 and the
\* screening belongs to the film.
C17_RemoveHall ==
    [][/\ (last'.op = "remove_hall") =>
            LET h == last'.hall
            IN IF h.number \notin DOMAIN halls
               THEN /\ last'.result.kind = "ValidationError"
                    /\ halls' = halls
               ELSE /\ last'.result = Ok
                    /\ DOMAIN halls' = DOMAIN halls \ {h.number}
                    /\ \A n \in DOMAIN halls' : halls'[n] = halls[n]
                    /\ HallLookupCheck(halls', h.number).kind = "KeyError"
                    /\ \A s \in ScreeningTimes, n \in SeatRequests :
                          s.hall = h.number =>
                             LET r == ValidateReservationRequest(
                                          screenings', halls', reservations', s, n)
                             IN /\ r # Ok
                                /\ (n > 0 /\ Contains(screenings', s))
                                      => r.kind = "ReservationError"
       /\ (last'.op = "hall" /\ last'.number \notin DOMAIN halls)
             => last'.result.kind = "KeyError"
       /\ (/\ last'.op = "reserve"
           /\ last'.s.hall \notin DOMAIN halls
           /\ last'.seats > 0
           /\ Contains(screenings, last'.s))
             => last'.result.kind = "ReservationError"]_vars

\* remove_hall has just removed a hall on being passed a Hall object of a
\* smaller capacity than the seats reserved in the hall registered.
C17_Witness ==
    /\ last.op = "remove_hall"
    /\ last.result = Ok
    /\ last.hall.number \notin DOMAIN halls
    /\ \E k \in DOMAIN reservations :
          k[1] = last.hall.number /\ reservations[k] > last.hall.capacity

----------------------------------------------------------------------------
(* Equal screenings and removal (SpecFilmObjects) *)

\* Two ScreeningTime objects have the same start and the same hall.
SameStartAndHall(a, b) == a.start = b.start /\ a.hall = b.hall

\* C18: add_screening(s) fails with ValidationError, not
\* ScheduleConflictError, and changes nothing whenever a member of
\* screenings has the start and the hall of s, be it s itself or another
\* object; screenings never has two members with the same start and hall.
C18_EqualScreeningRefused ==
    [][/\ (/\ last'.op = "add_screening"
           /\ \E e \in Range(screenings) : SameStartAndHall(e, last'.s)) =>
            /\ last'.result.kind = "ValidationError"
            /\ screenings' = screenings
       /\ \A i, j \in 1..Len(screenings') :
             i # j => ~SameStartAndHall(screenings'[i], screenings'[j])]_vars

\* add_screening has just been refused with ValidationError for an object
\* that is not in the list, a member of the list having its start and hall.
C18_Witness ==
    /\ last.op = "add_screening"
    /\ last.result.kind = "ValidationError"
    /\ last.s \notin Range(screenings)
    /\ \E e \in Range(screenings) : SameStartAndHall(e, last.s)

----------------------------------------------------------------------------
(* Promotions (SpecPromotions) *)

\* C20: the promotion map holds one promotion for each of its screenings.
\* apply_promotion(s, p) fails and leaves the map as it was if no member of
\* screenings has the start and hall of s, if the map has a promotion for
\* s, or if p.expires_at is strictly before the clock reading; otherwise p
\* becomes the promotion of s.  After a successful remove_promotion(s) the
\* map has nothing for s: a get_promotion(s) that follows returns None, and
\* an apply_promotion(s, p) that follows with p not expired is accepted.
C20_OnePromotionPerScreening ==
    [][/\ promotions' \in [DOMAIN promotions' -> CinemaPromotions]
       /\ (last'.op = "apply_promotion") =>
            LET s == last'.s
                p == last'.promotion
            IN IF \/ \A e \in Range(screenings) : ~SameStartAndHall(e, s)
                  \/ <<s.start, s.hall>> \in DOMAIN promotions
                  \/ p.expires_at < last'.now
               THEN /\ last'.result # Ok
                    /\ promotions' = promotions
               ELSE /\ last'.result = Ok
                    /\ DOMAIN promotions' = DOMAIN promotions \cup {<<s.start, s.hall>>}
                    /\ promotions'[<<s.start, s.hall>>] = p
                    /\ \A k \in DOMAIN promotions : promotions'[k] = promotions[k]
       /\ (last'.op = "remove_promotion" /\ last'.result = Ok) =>
            /\ <<last'.s.start, last'.s.hall>> \in DOMAIN promotions
            /\ DOMAIN promotions' = DOMAIN promotions \ {<<last'.s.start, last'.s.hall>>}
            /\ \A k \in DOMAIN promotions' : promotions'[k] = promotions[k]
       /\ (/\ last.op = "remove_promotion"
           /\ last.result = Ok
           /\ SameStartAndHall(last.s, last'.s)) =>
             /\ last'.op = "get_promotion" =>
                   (last'.result = Ok /\ last'.returned = NoPromotion)
             /\ (last'.op = "apply_promotion"
                 /\ last'.promotion.expires_at >= last'.now) =>
                   (last'.result = Ok
                    /\ promotions'[<<last'.s.start, last'.s.hall>>] = last'.promotion)]_vars

\* apply_promotion has just been refused for a screening of the film that
\* has a promotion, the promotion passed being another one and not expired.
C20_Witness ==
    /\ last.op = "apply_promotion"
    /\ last.result = Raise("ValueError", "Screening already has a promotion")
    /\ last.promotion.expires_at >= last.now
    /\ promotions[PromotionKey(last.s)] # last.promotion

----------------------------------------------------------------------------
(* Upcoming screenings (SpecUpcoming) *)

\* sub is seq with some of its elements left out, the others in their order.
IsSubsequence(sub, seq) ==
    \E f \in [1..Len(sub) -> 1..Len(seq)] :
        /\ \A i \in 1..Len(sub) : sub[i] = seq[f[i]]
        /\ \A i, j \in 1..Len(sub) : i < j => f[i] < f[j]

\* C21: upcoming_screenings(now) returns the screenings of the stored list
\* whose start is strictly after now, each once and in the order of the
\* stored list, none whose start is now or earlier, and leaves the stored
\* list as it was.
C21_UpcomingScreenings ==
    [][(last'.op = "upcoming_screenings") =>
          LET now == last'.now
              up == last'.upcoming
          IN /\ IsSubsequence(up, screenings)
             /\ \A i \in 1..Len(up) : up[i].start > now
             /\ Len(up) = Cardinality({i \in 1..Len(screenings) :
                                          screenings[i].start > now})
             /\ \A i \in 1..Len(screenings) :
                   screenings[i].start = now => screenings[i] \notin Range(up)
             /\ screenings' = screenings]_vars

\* upcoming_screenings has just been asked at the start of one screening of
\* the film, and has returned two later ones and left that one out.
C21_Witness ==
    /\ last.op = "upcoming_screenings"
    /\ \E i \in 1..Len(screenings) : screenings[i].start = last.now
    /\ Len(last.upcoming) >= 2
    /\ Len(last.upcoming) < Len(screenings)

----------------------------------------------------------------------------
(* Defective snapshots (SpecSnapshot) *)

\* The file cannot be read, or a hall record of the snapshot lacks a key or
\* has a capacity that is not positive.
Defective(f) ==
    \/ f = << >>
    \/ \E i \in 1..Len(f[1].halls) :
          \/ "available_seats" \notin DOMAIN f[1].halls[i]
          \/ f[1].halls[i].capacity <= 0

\* C22: Cinema.load fails with IOError on every defective snapshot (no
\* file, a missing key, a hall of non-positive capacity), and never fails
\* with ValidationError or any other kind.
C22_LoadReportsIOError ==
    [][(last'.op = "load") =>
          /\ Defective(file) => last'.result.kind = "IOError"
          /\ last'.result.kind \in {"ok", "IOError"}]_vars

----------------------------------------------------------------------------
(* Concurrent callers of Cinema.reserve (SpecConcurrent) *)

\* The seats reserved under key k exceed the capacity of the hall of k.
Overbooked(res, k) == k[1] \in DOMAIN halls /\ res[k] > halls[k[1]].capacity

\* C23: when every call of reserve is one atomic step (no concurrent
\* callers), no ledger entry exceeds its hall's capacity.  With concurrent
\* callers, a caller's write adds its seats to the value it read after its
\* check, and keeps the entry within capacity whenever the entry still has
\* the value its check saw; an entry exceeds the capacity only after a
\* write to an entry that another call changed after the writer's check.
C23_ReserveNotAtomic ==
    [][/\ callers = << >> =>
            \A k \in DOMAIN reservations' : ~Overbooked(reservations', k)
       /\ \A t \in DOMAIN callers :
            (callers[t].pc = "write" /\ callers'[t].pc = "done") =>
               LET k == Key(callers[t].s)
                   held == DictGet(reservations, k, 0)
               IN /\ reservations'[k] = callers[t].already + callers[t].seats
                  /\ held = callers[t].seen => ~Overbooked(reservations', k)
                  /\ (Overbooked(reservations', k) /\ ~Overbooked(reservations, k))
                        => held > callers[t].seen]_vars

\* Two callers have passed the capacity check against the same value of the
\* same ledger entry, both have committed, and the entry exceeds the
\* capacity of its hall.
C23_Witness ==
    /\ DOMAIN callers = 1..MaxCallers
    /\ \E t, u \in DOMAIN callers :
          /\ t # u
          /\ callers[t].pc = "done" /\ callers[u].pc = "done"
          /\ callers[t].result = Ok /\ callers[u].result = Ok
          /\ callers[t].commit /\ callers[u].commit
          /\ Key(callers[t].s) = Key(callers[u].s)
          /\ callers[t].seen = callers[u].seen
          /\ Overbooked(reservations, Key(callers[t].s))

----------------------------------------------------------------------------
(* Promotions of removed screenings (SpecPromotions) *)

\* C24: remove_screening and add_screening leave the promotion map as it
\* was, so a promotion applied to s outlives remove_screening(s).  Once a
\* screening with the start and hall of s is in the film again,
\* get_promotion(s') for any s' equal to s returns the promotion stored for
\* s, and apply_promotion(s', q) fails because the screening already has a
\* promotion; so in particular right after the add_screening that brings
\* the screening back.
C24_PromotionOutlivesRemoval ==
    [][/\ last'.op \in {"remove_screening", "add_screening"} =>
             promotions' = promotions
       /\ (/\ last'.op \in {"get_promotion", "apply_promotion"}
           /\ \E e \in Range(screenings) : SameStartAndHall(e, last'.s)
           /\ <<last'.s.start, last'.s.hall>> \in DOMAIN promotions) =>
             /\ last'.op = "get_promotion" =>
                   /\ last'.result = Ok
                   /\ last'.returned = promotions[<<last'.s.start, last'.s.hall>>]
                   /\ last'.returned \in CinemaPromotions
             /\ last'.op = "apply_promotion" =>
                   /\ last'.result =
                        Raise("ValueError", "Screening already has a promotion")
                   /\ promotions' = promotions
       /\ (/\ last.op = "add_screening"
           /\ last.result = Ok
           /\ <<last.s.start, last.s.hall>> \in DOMAIN promotions
           /\ SameStartAndHall(last.s, last'.s)) =>
             /\ last'.op = "get_promotion" => last'.returned \in CinemaPromotions
             /\ last'.op = "apply_promotion" => last'.result # Ok]_vars

\* add_screening has just put back a screening that was removed while it
\* had a promotion: the promotion map still has that promotion.
C24_Witness ==
    /\ last.op = "add_screening"
    /\ last.result = Ok
    /\ PromotionKey(last.s) \in DOMAIN promotions
    /\ promotions[PromotionKey(last.s)] \in CinemaPromotions

----------------------------------------------------------------------------
(* The legacy path Cinema.reserve_seats (SpecHall) *)

\* C25: Cinema.reserve_seats(screening, hall, seats) never changes the
\* ledger, nor what available_seats(screening) returns for any screening of
\* a registered hall.  It fails with ValidationError if hall.number is not
\* registered, seats <= 0 or seats > hall.capacity, with ReservationError if
\* seats <= hall.capacity but seats > hall.available_seats, and then changes
\* nothing; otherwise it takes seats from the available_seats of the hall
\* passed and changes no other hall.
C25_LegacyReserveSeats ==
    [][(last'.op = "reserve_seats") =>
         LET h == last'.before
             n == last'.seats
         IN /\ reservations' = reservations
            /\ DOMAIN halls' = DOMAIN halls
            /\ \A s \in ScreeningTimes :
                  s.hall \in DOMAIN halls =>
                     (halls'[s.hall].capacity - DictGet(reservations', Key(s), 0)
                        = halls[s.hall].capacity - DictGet(reservations, Key(s), 0))
            /\ IF h.number \notin DOMAIN halls \/ n <= 0 \/ n > h.capacity
               THEN /\ last'.result.kind = "ValidationError"
                    /\ last'.hall = h /\ halls' = halls
               ELSE IF n > h.available_seats
               THEN /\ last'.result.kind = "ReservationError"
                    /\ last'.hall = h /\ halls' = halls
               ELSE /\ last'.result = Ok
                    /\ last'.hall.available_seats = h.available_seats - n
                    /\ last'.hall.capacity = h.capacity
                    /\ last'.hall.number = h.number
                    /\ \A j \in DOMAIN halls :
                          halls'[j] = IF last'.registered /\ j = h.number
                                      THEN last'.hall ELSE halls[j]]_vars

\* Cinema.reserve_seats has just been refused with ReservationError for
\* seats within the capacity of a registered hall, seats of a screening in
\* that hall being reserved in the ledger.
C25_Witness ==
    /\ last.op = "reserve_seats"
    /\ last.result.kind = "ReservationError"
    /\ last.seats <= last.before.capacity
    /\ last.seats > last.before.available_seats
    /\ last.registered
    /\ \E k \in DOMAIN reservations : k[1] = last.number /\ reservations[k] > 0

----------------------------------------------------------------------------
(* Retries of fetch_user_data (SpecFetch) *)

\* The first n calls of api.get_data() have all raised ConnectionError.
AllConnectionErrors(n) ==
    /\ Len(fetch.log) >= n
    /\ \A i \in 1..n : fetch.log[i].kind = "ConnectionError"

\* C26: with retries >= 1, fetch_user_data makes at most retries calls of
\* api.get_data(); a value it returns is the one returned by a call of
\* get_data before which every call raised ConnectionError; it ends with
\* ConnectionError exactly when retries calls were made and all of them
\* raised ConnectionError; and every call of fetch_user_data ends.
C26_FetchUserData ==
    /\ [](fetch.retries >= 1 =>
            /\ Len(fetch.log) <= fetch.retries
            /\ fetch.pc = "done" =>
                 /\ fetch.outcome.kind = "return" =>
                      /\ fetch.log # << >>
                      /\ fetch.outcome = fetch.log[Len(fetch.log)]
                      /\ AllConnectionErrors(Len(fetch.log) - 1)
                 /\ fetch.outcome.kind = "ConnectionError" <=>
                      (Len(fetch.log) = fetch.retries
                         /\ AllConnectionErrors(fetch.retries)))
    /\ <>(fetch.pc = "done")

\* fetch_user_data has returned the value of its last allowed call of
\* get_data, the calls before it having raised ConnectionError.
C26_Witness ==
    /\ fetch.pc = "done"
    /\ fetch.retries = MaxRetries
    /\ Len(fetch.log) = MaxRetries
    /\ fetch.outcome.kind = "return"
    /\ fetch.outcome.value = MaxValue
    /\ AllConnectionErrors(MaxRetries - 1)

----------------------------------------------------------------------------
(* Reserved seats of a removed screening (SpecRemoval) *)

\* C27: cancel_reservation(film, s, n) succeeds and takes n from the entry
\* of s whenever 1 <= n <= the seats reserved for s, its hall being
\* registered; so in particular right after a successful
\* remove_screening(s) on a screening with seats reserved.
C27_ReservedSeatsCancellable ==
    [][(/\ last'.op = "cancel_reservation"
        /\ last'.s.hall \in DOMAIN halls
        /\ 1 <= last'.seats
        /\ last'.seats <= DictGet(reservations, Key(last'.s), 0)) =>
          /\ last'.result = Ok
          /\ reservations'[Key(last'.s)]
                = reservations[Key(last'.s)] - last'.seats]_vars

----------------------------------------------------------------------------
(* The ledger of a removed hall (Spec) *)

\* C28: after a successful remove_hall(h) the ledger has no seats reserved
\* under the number of h, and a hall that add_hall registers under a number
\* that was not registered has all its seats available for every screening
\* start: available_seats(screening) is its capacity.
C28_RemoveHallClearsLedger ==
    [][/\ (last'.op = "remove_hall" /\ last'.result = Ok) =>
            \A k \in DOMAIN reservations' :
                k[1] = last'.hall.number => reservations'[k] = 0
       /\ (/\ last'.op = "add_hall"
           /\ last'.result = Ok
           /\ last'.hall.number \notin DOMAIN halls) =>
             \A s \in ScreeningTimes :
                 s.hall = last'.hall.number =>
                    AvailableSeats(halls', reservations', s) = last'.hall.capacity]_vars

----------------------------------------------------------------------------
(* Two Films sharing a hall and a start (SpecTwoFilms) *)

\* The screenings of the Film a call was made with.
FilmOf(call) == IF call.film = 1 THEN screenings ELSE other.screenings

\* C29: the ledger has one entry for a hall and a start, whichever Film the
\* screening was passed with.  A reserve through either Film, for a
\* screening of that Film, is refused exactly when its seats plus the
\* seats reserved under the entry through both Films exceed the capacity,
\* and otherwise lowers available_seats by its seats for the screenings of
\* both Films; a cancel_reservation through either Film succeeds up to the
\* count of the entry, so also right after a reserve made through the
\* other Film.
C29_LedgerSharedByFilms ==
    [][LET s == last'.s
           k == <<s.hall, IsoFormat(s.start)>>
           held == DictGet(reservations, k, 0)
           both == {e \in Range(screenings) \cup Range(other.screenings) :
                       SameStartAndHall(e, s)}
       IN /\ (/\ last'.op = "reserve"
              /\ \E e \in Range(FilmOf(last')) : SameStartAndHall(e, s)) =>
                IF last'.seats + held > halls[s.hall].capacity
                THEN /\ last'.result.kind = "ReservationError"
                     /\ reservations' = reservations
                ELSE /\ last'.result = Ok
                     /\ DOMAIN reservations' = DOMAIN reservations \cup {k}
                     /\ reservations'[k] = held + last'.seats
                     /\ \A e \in both :
                           AvailableSeats(halls', reservations', e)
                              = AvailableSeats(halls, reservations, e) - last'.seats
          /\ (/\ last'.op = "cancel_reservation"
              /\ \E e \in Range(FilmOf(last')) : SameStartAndHall(e, s)) =>
                IF last'.seats > held
                THEN /\ last'.result.kind = "ReservationError"
                     /\ reservations' = reservations
                ELSE /\ last'.result = Ok
                     /\ reservations'[k] = held - last'.seats
                     /\ \A e \in both :
                           AvailableSeats(halls', reservations', e)
                              = AvailableSeats(halls, reservations, e) + last'.seats
          /\ (/\ last.op = "reserve" /\ last.result = Ok
              /\ last'.op = "cancel_reservation"
              /\ last'.film # last.film
              /\ \E e \in Range(FilmOf(last')) : SameStartAndHall(e, s)
              /\ last'.seats <= last.seats) =>
                last'.result = Ok]_vars

\* Seats were reserved through the first Film only, a reserve through the
\* second Film was refused for want of seats, and all the seats reserved
\* have just been cancelled through the second Film.
C29_Witness ==
    /\ Len(hist) = MaxCalls
    /\ hist[1].op = "add_screening" /\ hist[1].film = 2 /\ hist[1].result = Ok
    /\ hist[2].op = "reserve" /\ hist[2].film = 1 /\ hist[2].result = Ok
    /\ hist[3].op = "reserve" /\ hist[3].film = 2
    /\ hist[3].seats <= halls[1].capacity
    /\ hist[3].result.kind = "ReservationError"
    /\ hist[4].op = "cancel_reservation" /\ hist[4].film = 2
    /\ hist[4].seats = hist[2].seats
    /\ hist[4].result = Ok
    /\ reservations[Key(SharedScreening)] = 0

----------------------------------------------------------------------------
(* The order of add_screening calls (SpecOrder) *)

\* add_screening has been called with a screening that a Film of the same
\* duration accepted together with all the screenings the called Film has.
AcceptedElsewhere ==
    LET mine == IF last'.film = 1 THEN screenings ELSE other.screenings
        theirs == IF last'.film = 1 THEN other.screenings ELSE screenings
    IN /\ last'.op = "add_screening"
       /\ last'.s \in Range(theirs)
       /\ last'.s \notin Range(mine)
       /\ Range(mine) \subseteq Range(theirs)

\* The screening just added stands after every screening of its start.
AddedAfterEqualStarts ==
    LET list == IF last'.film = 1 THEN screenings' ELSE other'.screenings
    IN (last'.op = "add_screening" /\ last'.result = Ok) =>
          \A i, j \in 1..Len(list) :
             (list[i] = last'.s /\ j # i /\ list[j].start = last'.s.start) => j < i

\* C30, as stated: screenings that one order of add_screening calls
\* accepted are accepted in any other order, and two Films given the same
\* screenings in different orders end with the same list.
C30_AsStated ==
    [][/\ AcceptedElsewhere => last'.result = Ok
       /\ Range(screenings') = Range(other'.screenings) =>
             screenings' = other'.screenings]_vars

\* C30, amended: screenings that one order of add_screening calls accepted
\* are accepted in any other order, and two Films given the same screenings
\* in different orders end with lists of the same members, both ascending
\* by start, that differ at most in the order of screenings of equal start,
\* which stand in the order they were added.
C30_OrderIndependent ==
    [][/\ AcceptedElsewhere => last'.result = Ok
       /\ AddedAfterEqualStarts
       /\ Range(screenings') = Range(other'.screenings) =>
             /\ Len(screenings') = Len(other'.screenings)
             /\ \A i \in 1..Len(screenings') :
                   screenings'[i].start = other'.screenings[i].start
             /\ \A i \in 1..(Len(screenings') - 1) :
                   screenings'[i].start <= screenings'[i + 1].start
             /\ (\A i, j \in 1..Len(screenings') :
                    i # j => screenings'[i].start # screenings'[j].start) =>
                   screenings' = other'.screenings]_vars

\* Two Films hold the same three screenings, two of them of the same start
\* in different halls, in lists that differ.
C30_Witness ==
    /\ Len(screenings) >= 3
    /\ Range(screenings) = Range(other.screenings)
    /\ screenings # other.screenings
    /\ \E i \in 1..(Len(screenings) - 1) :
          /\ screenings[i].start = screenings[i + 1].start
          /\ screenings[i].hall # screenings[i + 1].hall

====
